---------------------------- MODULE Spec2Model ----------------------------
(***************************************************************************)
(* A model of metacopy (src/metacopy/command.py): the copy of a Metabase   *)
(* collection subtree into one duplicate per target database, with the     *)
(* location remapper, the embedded query rewriter, the entity remappers,   *)
(* the teardown, the sequence reset and the three commands.                *)
(*                                                                         *)
(* Encodings.                                                              *)
(*  - A name (database name, collection name, description, allow-list) is  *)
(*    a sequence of one-character strings, so that lower(), startswith(),  *)
(*    strip(), split(",") and replace() are computed, not assumed.         *)
(*  - A location or a permission object is a sequence of integer tokens:   *)
(*    0 is the character "/", a positive token k is the decimal numeral of *)
(*    k (a maximal run of digits), a negative token is a word              *)
(*    (-1 "collection", -2 "read", -3 "root").                             *)
(*  - A JSON value is a record [t, n, s, keys, items] (one shape for all   *)
(*    variants): t is "null", "int", "str", "list" or "dict".  A string    *)
(*    value is the text s followed by the numeral n when n > 0, which is   *)
(*    how "card__12" is held.                                              *)
(*  - A table is a set of rows (records) with distinct ids.                *)
(***************************************************************************)
EXTENDS Integers, Sequences, FiniteSets, TLC

VARIABLES
    store,   \* the rows of every table of the Metabase application database
    seq,     \* the primary-key sequence of each of the six copied tables
    pc,      \* position of the running command
    args,    \* the arguments of the running (or last) command
    ctx,     \* the locals of the running command: targets, maps, cache
    snap,    \* store and seq as they were when the command started
    hist,    \* what earlier commands left behind (for comparing runs), the
             \* inserts and deletes of the running one, the ids ever issued
    fn       \* input and output of a pure function under test

vars == <<store, seq, pc, args, ctx, snap, hist, fn>>

-----------------------------------------------------------------------------
(* Generic helpers                                                          *)

Max(S) == CHOOSE x \in S : \A y \in S : y <= x
Min(S) == CHOOSE x \in S : \A y \in S : x <= y

RECURSIVE SortedSeq(_)
SortedSeq(S) == IF S = {} THEN <<>> ELSE <<Min(S)>> \o SortedSeq(S \ {Min(S)})

Range(f) == {f[i] : i \in DOMAIN f}

IsPrefix(p, s) == Len(p) <= Len(s) /\ \A i \in 1..Len(p) : s[i] = p[i]

\* p occurs in s as a contiguous run (Python's `p in s`)
Contains(s, p) ==
    \E i \in 0..(Len(s) - Len(p)) : \A j \in 1..Len(p) : s[i + j] = p[j]

Put(f, k, v) == [x \in DOMAIN f \cup {k} |-> IF x = k THEN v ELSE f[x]]

EmptyMap == [x \in {} |-> 0]

-----------------------------------------------------------------------------
(* Text                                                                     *)

Lower(c) ==
    CASE c = "P" -> "p" [] c = "Q" -> "q" [] c = "D" -> "d"
      [] c = "S" -> "s" [] c = "A" -> "a" [] OTHER -> c

LowerStr(s) == [i \in 1..Len(s) |-> Lower(s[i])]

RECURSIVE Strip(_)
Strip(s) ==
    IF s = <<>> THEN s
    ELSE IF Head(s) = " " THEN Strip(Tail(s))
    ELSE IF s[Len(s)] = " " THEN Strip(SubSeq(s, 1, Len(s) - 1))
    ELSE s

\* s.split(","): the pieces between commas, empty pieces kept
RECURSIVE SplitComma(_, _)
SplitComma(s, cur) ==
    IF s = <<>> THEN <<cur>>
    ELSE IF Head(s) = "," THEN <<cur>> \o SplitComma(Tail(s), <<>>)
    ELSE SplitComma(Tail(s), Append(cur, Head(s)))

\* s.replace(old, new): every non-overlapping occurrence, left to right; with
\* old empty, new is put before every character and at the end
RECURSIVE Replace(_, _, _)
Replace(s, old, new) ==
    IF old = <<>>
    THEN IF s = <<>> THEN new
         ELSE new \o <<Head(s)>> \o Replace(Tail(s), old, new)
    ELSE IF Len(s) < Len(old) THEN s
    ELSE IF IsPrefix(old, s)
         THEN new \o Replace(SubSeq(s, Len(old) + 1, Len(s)), old, new)
         ELSE <<Head(s)>> \o Replace(Tail(s), old, new)

slugify(name) ==
    [i \in 1..Len(name) |->
        IF name[i] \in {".", "_", "(", ")"} THEN "_" ELSE name[i]]

should_process(name, only) ==
    IF only = <<>> THEN TRUE
    ELSE \E i \in 1..Len(only) :
            LET o == LowerStr(Strip(only[i]))
                n == LowerStr(name)
            IN  IsPrefix(o \o <<" ">>, n) \/ n = o

-----------------------------------------------------------------------------
(* Locations: remap_collection_location                                     *)

Slash == 0

\* [l for l in location.split("/") if l], each piece read by int()
Parts(location) == SelectSeq(location, LAMBDA x : x # Slash)

\* "/" + "/".join(parts) + "/"
RECURSIVE JoinSlash(_)
JoinSlash(parts) ==
    IF parts = <<>> THEN <<>>
    ELSE IF Len(parts) = 1 THEN parts
    ELSE <<Head(parts), Slash>> \o JoinSlash(Tail(parts))

JoinedLocation(parts) == <<Slash>> \o JoinSlash(parts) \o <<Slash>>

CountSlash(location) == Len(SelectSeq(location, LAMBDA x : x = Slash))

RECURSIVE RemapParts(_, _, _, _, _)
\* (RemapPartsLenient: a segment with no entry is passed through wherever it is.)
RemapPartsLenient(parts, i, can_fail, target, collections) ==
    IF i > Len(parts) THEN [ok |-> TRUE, err |-> "", val |-> parts]
    ELSE IF parts[i] \in DOMAIN collections
    THEN IF target \in DOMAIN collections[parts[i]]
         THEN RemapParts([parts EXCEPT ![i] = collections[parts[i]][target]],
                         i + 1, FALSE, target, collections)
         ELSE [ok |-> FALSE, err |-> "KeyError", val |-> <<>>]
    ELSE RemapParts(parts, i + 1, can_fail, target, collections)

\* the loop over the segments: i is the next index, can_fail the flag
RemapParts(parts, i, can_fail, target, collections) ==
    IF i > Len(parts) THEN [ok |-> TRUE, err |-> "", val |-> parts]
    ELSE LET part == parts[i] IN
         IF part \in DOMAIN collections
         THEN IF target \in DOMAIN collections[part]
              THEN RemapParts([parts EXCEPT ![i] = collections[part][target]],
                              i + 1, FALSE, target, collections)
              ELSE [ok |-> FALSE, err |-> "KeyError", val |-> <<>>]
         ELSE IF ~can_fail
              THEN [ok |-> FALSE, err |-> "ValueError", val |-> <<>>]
              ELSE RemapParts(parts, i + 1, can_fail, target, collections)

remap_collection_location(location, target, collections) ==
    LET r == RemapParts(Parts(location), 1, TRUE, target, collections)
    IN  IF r.ok THEN [r EXCEPT !.val = JoinedLocation(r.val)] ELSE r

-----------------------------------------------------------------------------
(* JSON values: what json.loads yields and json.dumps takes                 *)

Null == [t |-> "null", n |-> 0, s |-> "", keys |-> <<>>, items |-> <<>>]
JInt(i) == [t |-> "int", n |-> i, s |-> "", keys |-> <<>>, items |-> <<>>]
JStr(x) == [t |-> "str", n |-> 0, s |-> x, keys |-> <<>>, items |-> <<>>]
JList(xs) == [t |-> "list", n |-> 0, s |-> "", keys |-> <<>>, items |-> xs]
JDict(ks, xs) == [t |-> "dict", n |-> 0, s |-> "", keys |-> ks, items |-> xs]

\* the string "card__<id>"
CardRef(id) == [t |-> "str", n |-> id, s |-> "card__", keys |-> <<>>, items |-> <<>>]

\* isinstance(x, str) and x.startswith("card__")
IsCardRef(x) == x.t = "str" /\ x.s = "card__"

-----------------------------------------------------------------------------
(* The data-access layer as the rewriter uses it.  A rewrite threads the    *)
(* state st = [store, seq, cache, cards, reads]: cards is the id map of the *)
(* run ([none |-> TRUE] when the caller passes cards=None), reads counts    *)
(* the queries sent to the store.                                           *)

NoCards == [none |-> TRUE, m |-> EmptyMap]
SomeCards(m) == [none |-> FALSE, m |-> m]

\* setup_cache
EmptyCache ==
    [fields_by_id |-> EmptyMap, fields_by_name |-> EmptyMap,
     tables_by_name |-> EmptyMap, tables_by_id |-> EmptyMap]

Ok(v, st) == [ok |-> TRUE, err |-> "", val |-> v, st |-> st]
Fail(e, st) == [ok |-> FALSE, err |-> e, val |-> Null, st |-> st]

Read(st) == [st EXCEPT !.reads = @ + 1]

RowsById(tbl, id) == {r \in tbl : r.id = id}
RowOf(tbl, id) == CHOOSE r \in tbl : r.id = id

\* nextval of a sequence, then the insert of the row under that id
NextId(st, tbl) == st.seq[tbl] + 1

\* Model.values(...).take("id").add(): the row gets the sequence's next value
\* as its id (nextval is taken even when the insert then fails)
Insert(st, tbl, row) ==
    IF RowsById(st.store[tbl], NextId(st, tbl)) # {}
    THEN Fail("UniqueViolation",
              [st EXCEPT !.seq[tbl] = @ + 1,
                         !.issued[tbl] = Max({@, NextId(st, tbl)})])
    ELSE Ok(NextId(st, tbl),
            [st EXCEPT !.seq[tbl] = @ + 1,
                       !.issued[tbl] = Max({@, NextId(st, tbl)}),
                       !.log = Append(@, [tbl |-> tbl, id |-> NextId(st, tbl)]),
                       !.store[tbl] = @ \cup {[row EXCEPT !.id = NextId(st, tbl)]}])

\* json.loads of a stored column and json.dumps back: the model holds the
\* column as the JSON value its text denotes
json_loads(text) == text.json
json_dumps(value) == [json |-> value]

\* the depth of nested copy_card calls at which the interpreter gives up
\* (RecursionError)
MaxNest == 3

-----------------------------------------------------------------------------
(* Results.  A step yields [ok, err, val, st]; Bind runs the rest on the    *)
(* outcome of a step that did not raise, and passes an exception on.        *)

Bind(r, rest(_)) == IF r.ok THEN rest(r) ELSE r

-----------------------------------------------------------------------------
(* Map lookups.  The four id maps are defaultdict(dict): maps from a source *)
(* id to a map from target database id to new id.  A failed lookup ends the *)
(* command, so the empty entry it leaves behind is modelled only where the   *)
(* command goes on (remap_permissions).                                      *)

Has(m, k, target) == k \in DOMAIN m /\ target \in DOMAIN m[k]

\* m[k][target] = v
Set2(m, k, target, v) ==
    Put(m, k, Put(IF k \in DOMAIN m THEN m[k] ELSE EmptyMap, target, v))

-----------------------------------------------------------------------------
(* Embedded query rewriter: remap_field, remap_table, remap_query,          *)
(* remap_card, copy_card                                                    *)

RECURSIVE remap_query(_, _, _, _)
RECURSIVE RemapListFrom(_, _, _, _, _, _)
RECURSIVE RemapDictFrom(_, _, _, _, _, _)
RECURSIVE remap_table(_, _, _, _)
RECURSIVE remap_card(_, _, _, _, _)
RECURSIVE CopyCardFrom(_, _, _, _, _, _, _)

\* db._cache["tables_by_id"][table_id], filled by Table.take(...).get(table_id)
TableById(st, id) ==
    IF id \in DOMAIN st.cache.tables_by_id
    THEN Ok(st.cache.tables_by_id[id], st)
    ELSE IF RowsById(st.store.table, id) = {} THEN Fail("NotFound", Read(st))
    ELSE Ok(RowOf(st.store.table, id),
            [Read(st) EXCEPT !.cache.tables_by_id =
                Put(@, id, RowOf(st.store.table, id))])

\* the rows a .one() finds: exactly one, or the lookup fails
TheOne(rows) == (CHOOSE r \in rows : TRUE).id

TablesNamed(st, target, schema, name) ==
    {r \in st.store.table : r.schema = schema /\ r.name = name /\ r.db_id = target}

\* (TableByNameAnyTarget: the cache keyed by schema and name alone.)
TableByNameAnyTarget(st, target, schema, name) ==
    IF <<0, schema, name>> \in DOMAIN st.cache.tables_by_name
    THEN Ok(JInt(st.cache.tables_by_name[<<0, schema, name>>]), st)
    ELSE IF Cardinality(TablesNamed(st, target, schema, name)) # 1
    THEN Fail("NotFound", Read(st))
    ELSE Ok(JInt(TheOne(TablesNamed(st, target, schema, name))),
            [Read(st) EXCEPT !.cache.tables_by_name =
                Put(@, <<0, schema, name>>,
                    TheOne(TablesNamed(st, target, schema, name)))])

\* db._cache["tables_by_name"][(target, schema, name)]
TableByName(st, target, schema, name) ==
    IF <<target, schema, name>> \in DOMAIN st.cache.tables_by_name
    THEN Ok(JInt(st.cache.tables_by_name[<<target, schema, name>>]), st)
    ELSE IF Cardinality(TablesNamed(st, target, schema, name)) # 1
    THEN Fail("NotFound", Read(st))
    ELSE Ok(JInt(TheOne(TablesNamed(st, target, schema, name))),
            [Read(st) EXCEPT !.cache.tables_by_name =
                Put(@, <<target, schema, name>>,
                    TheOne(TablesNamed(st, target, schema, name)))])

\* the else branch of remap_table: a table of the application's metadata
RemapPlainTable(st, table_id, target) ==
    IF table_id.t # "int" THEN Fail("TypeError", st)
    ELSE Bind(TableById(st, table_id.n),
              LAMBDA r : TableByName(r.st, target, r.val.schema, r.val.name))

remap_table(st, table_id, target, depth) ==
    IF IsCardRef(table_id)
    THEN IF table_id.n = 0 THEN Fail("ValueError", st)
         ELSE IF ~st.cards.none
         THEN \* assume this card was already remapped and exists in `cards`
              IF Has(st.cards.m, table_id.n, target)
              THEN Ok(CardRef(st.cards.m[table_id.n][target]), st)
              ELSE Fail("KeyError", st)
         ELSE \* recursively copy this card
              IF RowsById(st.store.card, table_id.n) = {}
              THEN Fail("NotFound", Read(st))
              ELSE Bind(CopyCardFrom(Read(st), RowOf(st.store.card, table_id.n),
                                     <<target>>, 1, [none |-> TRUE, m |-> EmptyMap],
                                     depth + 1, 0),
                        LAMBDA r : Ok(CardRef(r.val), r.st))
    ELSE RemapPlainTable(st, table_id, target)

\* db._cache["fields_by_id"][field_id], filled by Field.take(...).get(field_id)
FieldById(st, id) ==
    IF id \in DOMAIN st.cache.fields_by_id
    THEN Ok(st.cache.fields_by_id[id], st)
    ELSE IF RowsById(st.store.field, id) = {} THEN Fail("NotFound", Read(st))
    ELSE Ok(RowOf(st.store.field, id),
            [Read(st) EXCEPT !.cache.fields_by_id =
                Put(@, id, RowOf(st.store.field, id))])

FieldsNamed(st, target_table, name) ==
    {r \in st.store.field : r.name = name /\ r.table_id = target_table}

\* (FieldByNameAnyTable: the cache keyed by the field's name alone.)
FieldByNameAnyTable(st, target_table, name) ==
    IF <<0, name>> \in DOMAIN st.cache.fields_by_name
    THEN Ok(JInt(st.cache.fields_by_name[<<0, name>>]), st)
    ELSE IF Cardinality(FieldsNamed(st, target_table, name)) # 1
    THEN Fail("NotFound", Read(st))
    ELSE Ok(JInt(TheOne(FieldsNamed(st, target_table, name))),
            [Read(st) EXCEPT !.cache.fields_by_name =
                Put(@, <<0, name>>,
                    TheOne(FieldsNamed(st, target_table, name)))])

\* db._cache["fields_by_name"][(target_table, name)]
FieldByName(st, target_table, name) ==
    IF <<target_table, name>> \in DOMAIN st.cache.fields_by_name
    THEN Ok(JInt(st.cache.fields_by_name[<<target_table, name>>]), st)
    ELSE IF Cardinality(FieldsNamed(st, target_table, name)) # 1
    THEN Fail("NotFound", Read(st))
    ELSE Ok(JInt(TheOne(FieldsNamed(st, target_table, name))),
            [Read(st) EXCEPT !.cache.fields_by_name =
                Put(@, <<target_table, name>>,
                    TheOne(FieldsNamed(st, target_table, name)))])

remap_field(st, field_id, target, depth) ==
    IF field_id.t # "int" THEN Fail("TypeError", st)
    ELSE Bind(FieldById(st, field_id.n), LAMBDA f :
         Bind(remap_table(f.st, JInt(f.val.table_id), target, depth), LAMBDA t :
              FieldByName(t.st, t.val.n, f.val.name)))

\* (RemapListBackwards: the rewritten elements collected last first.)
RemapListBackwards(st, items, i, acc, target, depth) ==
    IF i > Len(items) THEN Ok(JList(acc), st)
    ELSE Bind(remap_query(st, items[i], target, depth), LAMBDA r :
              RemapListFrom(r.st, items, i + 1, <<r.val>> \o acc, target, depth))

\* [await remap_query(db, q, target, cards=cards) for q in query]
RemapListFrom(st, items, i, acc, target, depth) ==
    IF i > Len(items) THEN Ok(JList(acc), st)
    ELSE Bind(remap_query(st, items[i], target, depth), LAMBDA r :
              RemapListFrom(r.st, items, i + 1, Append(acc, r.val), target, depth))

\* (RemapEntryKeepingFingerprint: "fingerprint" treated as any other key.)
RemapEntryKeepingFingerprint(st, key, value, target, depth) ==
    IF key = "database" THEN Ok(JInt(target), st)
    ELSE IF key = "source-table" THEN remap_table(st, value, target, depth)
    ELSE IF key = "card_id"
    THEN IF value.t = "null" THEN Ok(value, st)
         ELSE IF ~st.cards.none
         THEN IF value.t \in {"list", "dict"} THEN Fail("TypeError", st)
              ELSE IF value.t = "int" /\ Has(st.cards.m, value.n, target)
              THEN Ok(JInt(st.cards.m[value.n][target]), st)
              ELSE Fail("KeyError", st)
         ELSE Fail("NameError", st)
    ELSE remap_query(st, value, target, depth)

\* the value remap_query gives the entry `key: value` of a mapping
RemapEntry(st, key, value, target, depth) ==
    IF key = "database" THEN Ok(JInt(target), st)
    ELSE IF key = "source-table" THEN remap_table(st, value, target, depth)
    ELSE IF key = "fingerprint" THEN Ok(Null, st)
    ELSE IF key = "card_id"
    THEN IF value.t = "null" THEN Ok(value, st)
         ELSE IF ~st.cards.none
         THEN IF value.t \in {"list", "dict"} THEN Fail("TypeError", st)
              ELSE IF value.t = "int" /\ Has(st.cards.m, value.n, target)
              THEN Ok(JInt(st.cards.m[value.n][target]), st)
              ELSE Fail("KeyError", st)
         ELSE \* `card_id` is not a name of remap_query
              Fail("NameError", st)
    ELSE remap_query(st, value, target, depth)

\* for key, value in query.items(): ... result[key] = new_value
RemapDictFrom(st, q, i, acc, target, depth) ==
    IF i > Len(q.keys) THEN Ok(JDict(q.keys, acc), st)
    ELSE Bind(RemapEntry(st, q.keys[i], q.items[i], target, depth), LAMBDA r :
              RemapDictFrom(r.st, q, i + 1, Append(acc, r.val), target, depth))

remap_query(st, query, target, depth) ==
    IF query.t = "list"
    THEN IF Len(query.items) = 2 /\ query.items[1] = JStr("field-id")
         THEN Bind(remap_field(st, query.items[2], target, depth), LAMBDA f :
                   Ok(JList(<<JStr("field-id"), f.val>>), f.st))
         ELSE RemapListFrom(st, query.items, 1, <<>>, target, depth)
    ELSE IF query.t = "dict"
    THEN RemapDictFrom(st, query, 1, <<>>, target, depth)
    ELSE Ok(query, st)

\* collections is [none, m]: `if collections:` is false for None and for {}
remap_card(st, card, target, collections, depth) ==
    Bind(remap_query(st, json_loads(card.dataset_query), target, depth), LAMBDA q :
         IF collections.none \/ DOMAIN collections.m = {}
         THEN Ok([card EXCEPT !.id = 0, !.dataset_query = json_dumps(q.val)], q.st)
         ELSE IF Has(collections.m, card.collection_id, target)
         THEN Ok([card EXCEPT !.id = 0,
                              !.dataset_query = json_dumps(q.val),
                              !.collection_id =
                                  collections.m[card.collection_id][target]],
                 q.st)
         ELSE Fail("KeyError", q.st))

\* if cards is not None: cards[card_id][target] = new_card["id"]
NoteCard(st, card_id, target, new_id) ==
    IF st.cards.none THEN st
    ELSE [st EXCEPT !.cards.m = Set2(@, card_id, target, new_id)]

\* copy_card: the loop over databases.keys() from index i on; last is the id
\* of the last card inserted (0: new_card is still unbound)
CopyCardFrom(st, card, targets, i, collections, depth, last) ==
    IF depth > MaxNest THEN Fail("RecursionError", st)
    ELSE IF i > Len(targets)
    THEN IF last = 0 THEN Fail("UnboundLocalError", st) ELSE Ok(last, st)
    ELSE Bind(remap_card(st, card, targets[i], collections, depth), LAMBDA r :
         Bind(Insert(r.st, "card", r.val), LAMBDA a :
              CopyCardFrom(NoteCard(a.st, card.id, targets[i], a.val),
                           card, targets, i + 1, collections, depth, a.val)))

copy_card(st, card, targets, collections) ==
    CopyCardFrom(st, card, targets, 1, collections, 0, 0)

-----------------------------------------------------------------------------
(* Entity remappers                                                         *)

\* remap_collection once the location is rewritten (loc is the outcome of
\* remap_collection_location); a description is [null, text]: None has no
\* replace()
RenamedCollection(st, collection, loc, new_name) ==
    IF ~loc.ok THEN Fail(loc.err, st)
    ELSE IF CountSlash(loc.val) = 2
    THEN IF collection.description.null THEN Fail("AttributeError", st)
         ELSE Ok([collection EXCEPT
                    !.id = 0,
                    !.location = loc.val,
                    !.name = new_name,
                    !.description.text =
                        Replace(@, slugify(collection.name), slugify(new_name))], st)
    ELSE Ok([collection EXCEPT !.id = 0, !.location = loc.val], st)

remap_collection(st, collection, target, databases) ==
    RenamedCollection(st, collection,
                      remap_collection_location(collection.location, target,
                                                st.collections),
                      databases[target])

remap_dashboard(st, dashboard, target) ==
    IF Has(st.collections, dashboard.collection_id, target)
    THEN Ok([dashboard EXCEPT
                !.id = 0,
                !.collection_id = st.collections[dashboard.collection_id][target]],
            st)
    ELSE Fail("KeyError", st)

\* (RemapDashboardcardAlwaysLooksUp: the card map is consulted for a NULL
\* card_id as for any other.)
RemapDashboardcardAlwaysLooksUp(st, link, target) ==
    IF ~Has(st.cards.m, link.card_id, target)
    THEN Fail("ValueError", st)
    ELSE IF ~Has(st.dashboards, link.dashboard_id, target)
    THEN Fail("KeyError", st)
    ELSE Bind(remap_query(st, json_loads(link.parameter_mappings), target, 0),
              LAMBDA q :
              Ok([link EXCEPT
                    !.id = 0,
                    !.card_id = st.cards.m[@][target],
                    !.dashboard_id = st.dashboards[@][target],
                    !.parameter_mappings = json_dumps(q.val)], q.st))

\* card_id 0 is NULL
remap_dashboardcard(st, link, target) ==
    IF link.card_id # 0 /\ ~Has(st.cards.m, link.card_id, target)
    THEN Fail("ValueError", st)
    ELSE IF ~Has(st.dashboards, link.dashboard_id, target)
    THEN Fail("KeyError", st)
    ELSE Bind(remap_query(st, json_loads(link.parameter_mappings), target, 0),
              LAMBDA q :
              Ok([link EXCEPT
                    !.id = 0,
                    !.card_id = IF @ # 0 THEN st.cards.m[@][target] ELSE @,
                    !.dashboard_id = st.dashboards[@][target],
                    !.parameter_mappings = json_dumps(q.val)], q.st))

\* (RemapCardseriesAnyTarget: the card taken from the entry of the lowest
\* target, whichever target the link is copied for.)
RemapCardseriesAnyTarget(st, link, target) ==
    IF ~Has(st.cards.m, link.card_id, target) THEN Fail("KeyError", st)
    ELSE IF ~Has(st.dashboardcards, link.dashboardcard_id, target)
    THEN Fail("KeyError", st)
    ELSE Ok([link EXCEPT
                !.id = 0,
                !.card_id = st.cards.m[@][Min(DOMAIN st.cards.m[@])],
                !.dashboardcard_id = st.dashboardcards[@][target]],
            st)

remap_cardseries(st, link, target) ==
    IF ~Has(st.cards.m, link.card_id, target) THEN Fail("KeyError", st)
    ELSE IF ~Has(st.dashboardcards, link.dashboardcard_id, target)
    THEN Fail("KeyError", st)
    ELSE Ok([link EXCEPT
                !.id = 0,
                !.card_id = st.cards.m[@][target],
                !.dashboardcard_id = st.dashboardcards[@][target]],
            st)

\* COLLECTION_PERMISSION_REGEX.match: "/collection/" digits "/" rest
WordCollection == -1
PermissionMatches(object) ==
    /\ Len(object) >= 5
    /\ SubSeq(object, 1, 3) = <<Slash, WordCollection, Slash>>
    /\ object[4] > 0
    /\ object[5] = Slash

\* collections[collection_id] of a defaultdict, read
Entry(collections, collection_id) ==
    IF collection_id \in DOMAIN collections THEN collections[collection_id] ELSE EmptyMap

\* the rows remap_permissions returns, in the order of collections.items()
\* (the order the targets were entered in)
\* (PermissionRowsNoRemainder: the object cut after the collection id.)
PermissionRowsNoRemainder(permission, entry, ts) ==
    [i \in 1..Len(ts) |->
        [permission EXCEPT
            !.id = 0,
            !.object = <<Slash, WordCollection, Slash, entry[ts[i]], Slash>>]]

PermissionRows(permission, entry, ts) ==
    [i \in 1..Len(ts) |->
        [permission EXCEPT
            !.id = 0,
            !.object = <<Slash, WordCollection, Slash, entry[ts[i]], Slash>>
                       \o SubSeq(permission.object, 6, Len(permission.object))]]

remap_permissions(permission, collections, targets) ==
    PermissionRows(permission, Entry(collections, permission.object[4]),
                   SelectSeq(targets,
                             LAMBDA t : t \in DOMAIN Entry(collections,
                                                           permission.object[4])))

\* permissions_for: like '/collection/%', then any "/<c>/" in the object
permissions_for(Permissions, collection_ids) ==
    {p \in Permissions :
        /\ IsPrefix(<<Slash, WordCollection, Slash>>, p.object)
        /\ \E c \in collection_ids : Contains(p.object, <<Slash, c, Slash>>)}

-----------------------------------------------------------------------------
(* Copy passes.  `targets` is databases.keys() in order, `databases` the    *)
(* map from target id to name.  Rows come from the store in id order.       *)

RowSeq(tbl, ids) == [i \in 1..Len(SortedSeq(ids)) |-> RowOf(tbl, SortedSeq(ids)[i])]

RowsWhere(tbl, column, values) == RowSeq(tbl, {r.id : r \in {x \in tbl : x[column] \in values}})

RECURSIVE CopyDashboardFrom(_, _, _, _)
CopyDashboardFrom(st, dashboard, targets, i) ==
    IF i > Len(targets) THEN Ok(0, st)
    ELSE Bind(remap_dashboard(st, dashboard, targets[i]), LAMBDA r :
         Bind(Insert(r.st, "dashboard", r.val), LAMBDA a :
              CopyDashboardFrom([a.st EXCEPT !.dashboards =
                                    Set2(@, dashboard.id, targets[i], a.val)],
                                dashboard, targets, i + 1)))

copy_dashboard(st, dashboard, targets) == CopyDashboardFrom(st, dashboard, targets, 1)

RECURSIVE CopyCardsOf(_, _, _, _)
CopyCardsOf(st, cards, i, targets) ==
    IF i > Len(cards) THEN Ok(0, st)
    ELSE Bind(copy_card(st, cards[i], targets, SomeCards(st.collections)), LAMBDA r :
              CopyCardsOf(r.st, cards, i + 1, targets))

RECURSIVE CopyDashboardsOf(_, _, _, _)
CopyDashboardsOf(st, dashboards, i, targets) ==
    IF i > Len(dashboards) THEN Ok(0, st)
    ELSE Bind(copy_dashboard(st, dashboards[i], targets), LAMBDA r :
              CopyDashboardsOf(r.st, dashboards, i + 1, targets))

copy_collection_items(st, collection_id, targets) ==
    Bind(CopyCardsOf(st, RowsWhere(st.store.card, "collection_id", {collection_id}),
                     1, targets),
         LAMBDA r :
         CopyDashboardsOf(r.st,
                          RowsWhere(st.store.dashboard, "collection_id", {collection_id}),
                          1, targets))

RECURSIVE CopyCollectionFrom(_, _, _, _, _)
CopyCollectionFrom(st, collection, targets, databases, i) ==
    IF i > Len(targets) THEN Ok(0, st)
    ELSE Bind(remap_collection(st, collection, targets[i], databases), LAMBDA r :
         Bind(Insert(r.st, "collection", r.val), LAMBDA a :
              CopyCollectionFrom([a.st EXCEPT !.collections =
                                     Set2(@, collection.id, targets[i], a.val)],
                                 collection, targets, databases, i + 1)))

\* sorted(base, key=lambda x: x["location"].count("/")): a stable sort
RECURSIVE InsertByDepth(_, _)
InsertByDepth(sorted, c) ==
    IF sorted = <<>> THEN <<c>>
    ELSE IF CountSlash(c.location) < CountSlash(Head(sorted).location)
    THEN <<c>> \o sorted
    ELSE <<Head(sorted)>> \o InsertByDepth(Tail(sorted), c)

RECURSIVE SortedByDepth(_)
SortedByDepth(base) ==
    IF base = <<>> THEN <<>>
    ELSE InsertByDepth(SortedByDepth(SubSeq(base, 1, Len(base) - 1)), base[Len(base)])

RECURSIVE CopyCollectionsFrom(_, _, _, _, _)
CopyCollectionsFrom(st, base, targets, databases, i) ==
    IF i > Len(base) THEN Ok(0, st)
    ELSE Bind(CopyCollectionFrom(st, base[i], targets, databases, 1), LAMBDA r :
         Bind(copy_collection_items(r.st, base[i].id, targets), LAMBDA it :
              CopyCollectionsFrom(it.st, base, targets, databases, i + 1)))

\* (CopyCollectionsThenItems: every collection first, the cards and dashboards
\* of all of them after the last collection.)
RECURSIVE CopyAllCollectionsFrom(_, _, _, _, _)
CopyAllCollectionsFrom(st, base, targets, databases, i) ==
    IF i > Len(base) THEN Ok(0, st)
    ELSE Bind(CopyCollectionFrom(st, base[i], targets, databases, 1), LAMBDA r :
              CopyAllCollectionsFrom(r.st, base, targets, databases, i + 1))

RECURSIVE CopyAllItemsFrom(_, _, _, _)
CopyAllItemsFrom(st, base, targets, i) ==
    IF i > Len(base) THEN Ok(0, st)
    ELSE Bind(copy_collection_items(st, base[i].id, targets), LAMBDA it :
              CopyAllItemsFrom(it.st, base, targets, i + 1))

CopyCollectionsThenItems(st, base, targets, databases) ==
    Bind(CopyAllCollectionsFrom(st, SortedByDepth(base), targets, databases, 1),
         LAMBDA r : CopyAllItemsFrom(r.st, SortedByDepth(base), targets, 1))

copy_collections(st, base, targets, databases) ==
    CopyCollectionsFrom(st, SortedByDepth(base), targets, databases, 1)

\* Permissions.values(literal(new_permissions)).add(): one row after another
RECURSIVE InsertAll(_, _, _, _)
InsertAll(st, tbl, rows, i) ==
    IF i > Len(rows) THEN Ok(0, st)
    ELSE Bind(Insert(st, tbl, rows[i]), LAMBDA a : InsertAll(a.st, tbl, rows, i + 1))

\* collections[collection_id] of a defaultdict leaves an entry behind
Touched(st, collection_id) ==
    IF collection_id \in DOMAIN st.collections THEN st
    ELSE [st EXCEPT !.collections = Put(@, collection_id, EmptyMap)]

RECURSIVE CopyPermissionsFrom(_, _, _, _)
CopyPermissionsFrom(st, permissions, targets, i) ==
    IF i > Len(permissions) THEN Ok(0, st)
    ELSE IF ~PermissionMatches(permissions[i].object) THEN Fail("AttributeError", st)
    ELSE Bind(InsertAll(Touched(st, permissions[i].object[4]), "perm",
                        remap_permissions(permissions[i], st.collections, targets), 1),
              LAMBDA a : CopyPermissionsFrom(a.st, permissions, targets, i + 1))

copy_permissions(st, targets) ==
    CopyPermissionsFrom(st,
        RowSeq(st.store.perm,
               {p.id : p \in permissions_for(st.store.perm, DOMAIN st.collections)}),
        targets, 1)

\* the loops of copy_dashboardcards and copy_cardseries: link i, target j
RECURSIVE CopyDashboardCardsFrom(_, _, _, _, _)
CopyDashboardCardsFrom(st, links, targets, i, j) ==
    IF i > Len(links) THEN Ok(0, st)
    ELSE IF j > Len(targets) THEN CopyDashboardCardsFrom(st, links, targets, i + 1, 1)
    ELSE Bind(remap_dashboardcard(st, links[i], targets[j]), LAMBDA r :
         Bind(Insert(r.st, "dashcard", r.val), LAMBDA a :
              CopyDashboardCardsFrom([a.st EXCEPT !.dashboardcards =
                                         Set2(@, links[i].id, targets[j], a.val)],
                                     links, targets, i, j + 1)))

copy_dashboardcards(st, targets) ==
    CopyDashboardCardsFrom(st,
        RowsWhere(st.store.dashcard, "dashboard_id", DOMAIN st.dashboards),
        targets, 1, 1)

RECURSIVE CopyCardSeriesFrom(_, _, _, _, _)
CopyCardSeriesFrom(st, links, targets, i, j) ==
    IF i > Len(links) THEN Ok(0, st)
    ELSE IF j > Len(targets) THEN CopyCardSeriesFrom(st, links, targets, i + 1, 1)
    ELSE Bind(remap_cardseries(st, links[i], targets[j]), LAMBDA r :
         Bind(Insert(r.st, "series", r.val), LAMBDA a :
              CopyCardSeriesFrom(a.st, links, targets, i, j + 1)))

copy_cardseries(st, targets) ==
    CopyCardSeriesFrom(st,
        RowsWhere(st.store.series, "dashboardcard_id", DOMAIN st.dashboardcards),
        targets, 1, 1)

-----------------------------------------------------------------------------
(* Teardown and sequence reset                                              *)

CopiedTables == {"collection", "card", "dashboard", "dashcard", "series", "perm"}

\* the ids drop_collections selects, set by set
DropSets(tables, root_collection_id, base_collection_id, only) ==
    LET collections ==
            {c \in tables.collection :
                /\ IsPrefix(<<Slash, root_collection_id, Slash>>, c.location)
                /\ ~IsPrefix(<<Slash, root_collection_id, Slash,
                               base_collection_id, Slash>>, c.location)
                /\ c.id # base_collection_id}
        collection_ids == {c.id : c \in {x \in collections : should_process(x.name, only)}}
        permission_ids == {p.id : p \in permissions_for(tables.perm, collection_ids)}
        card_ids == {c.id : c \in {x \in tables.card : x.collection_id \in collection_ids}}
        dashboard_ids ==
            {d.id : d \in {x \in tables.dashboard : x.collection_id \in collection_ids}}
        dashboardcard_ids ==
            {l.id : l \in {x \in tables.dashcard : x.dashboard_id \in dashboard_ids}}
        other_dashboardcard_ids ==
            {l.id : l \in {x \in tables.dashcard : x.card_id \in card_ids}}
        cardseries_ids ==
            {l.id : l \in {x \in tables.series : x.dashboardcard_id \in dashboardcard_ids}}
    IN  [collection |-> collection_ids,
         perm |-> permission_ids,
         card |-> card_ids,
         dashboard |-> dashboard_ids,
         dashcard |-> dashboardcard_ids \cup other_dashboardcard_ids,
         series |-> cardseries_ids,
         own_dashcard |-> dashboardcard_ids,
         other_dashcard |-> other_dashboardcard_ids]

\* if not collection_ids: return; else the seven deletes
drop_collections(tables, root_collection_id, base_collection_id, only) ==
    LET d == DropSets(tables, root_collection_id, base_collection_id, only)
    IN  IF d.collection = {} THEN tables
        ELSE [tbl \in DOMAIN tables |->
                IF tbl \in CopiedTables
                THEN {r \in tables[tbl] : r.id \notin d[tbl]}
                ELSE tables[tbl]]

\* one DELETE ... WHERE id = ANY(ids)
DeleteFrom(tables, tbl, ids) ==
    [tables EXCEPT ![tbl] = {r \in @ : r.id \notin ids}]

\* the tables after each of the seven deletes, in the order they are issued
DropStepsFrom(tables, d) ==
    LET s1 == DeleteFrom(tables, "perm", d.perm)
        s2 == DeleteFrom(s1, "series", d.series)
        s3 == DeleteFrom(s2, "dashcard", d.own_dashcard)
        s4 == DeleteFrom(s3, "dashcard", d.other_dashcard)
        s5 == DeleteFrom(s4, "dashboard", d.dashboard)
        s6 == DeleteFrom(s5, "card", d.card)
        s7 == DeleteFrom(s6, "collection", d.collection)
    IN  <<s1, s2, s3, s4, s5, s6, s7>>

DropSteps(tables, root_collection_id, base_collection_id, only) ==
    LET d == DropSets(tables, root_collection_id, base_collection_id, only)
    IN  IF d.collection = {} THEN <<>> ELSE DropStepsFrom(tables, d)

\* COALESCE(MAX(pk), 1) + 100
SeqMargin == 100

reset_sequences(tables, sequences) ==
    [tbl \in DOMAIN sequences |->
        (IF tables[tbl] = {} THEN 1 ELSE Max({r.id : r \in tables[tbl]})) + SeqMargin]

\* `async with connection.transaction()` left by an exception: the rows of
\* every table are as they were when the block was entered.  A sequence is not
\* part of that: setval and nextval are not undone by a rollback.
\* (RollbackNothing: a block that is no transaction, what was written stays.)
RollbackNothing(before, now) == now
Rollback(before, now) == before

-----------------------------------------------------------------------------
(* The stores the commands are run on.  Database 1 is the base context,     *)
(* 2 and 3 are targets; collection 1 is the root, 2 the base collection, 3  *)
(* its child.                                                               *)

Text(null, text) == [null |-> null, text |-> text]

EnvsName == <<"e", "n", "v", "s">>
ProdName == <<"p", "r", "o", "d">>
SalesName == <<"s", "a", "l", "e", "s">>
MiscName == <<"m", "i", "s", "c">>
ProdDb == <<"P", "r", "o", "d", " ", "1">>
QaDb == <<"Q", "A">>
DevDb == <<"D", "e", "v", " ", "2">>

WordRead == -2

Q1 ==
    JDict(<<"database", "type", "query">>,
          <<JInt(1), JStr("query"),
            JDict(<<"source-table", "filter", "fingerprint">>,
                  <<JInt(11),
                    JList(<<JStr("="), JList(<<JStr("field-id"), JInt(111)>>), JInt(5)>>),
                    JDict(<<"n">>, <<JInt(7)>>)>>)>>)

QNested(card) ==
    JDict(<<"database", "query">>,
          <<JInt(1), JDict(<<"source-table">>, <<CardRef(card)>>)>>)

Q9 ==
    JDict(<<"database", "query">>,
          <<JInt(2), JDict(<<"source-table">>, <<JInt(12)>>)>>)

PM1 ==
    JList(<<JDict(<<"card_id", "target">>,
                  <<JInt(1),
                    JList(<<JStr("dimension"),
                            JList(<<JStr("field-id"), JInt(111)>>)>>)>>)>>)

\* a query on a table alone, and one on a card with a filter on a field
QTable ==
    JDict(<<"database", "query">>,
          <<JInt(1), JDict(<<"source-table">>, <<JInt(11)>>)>>)

QNestedFiltered(card) ==
    JDict(<<"database", "query">>,
          <<JInt(1),
            JDict(<<"source-table", "filter">>,
                  <<CardRef(card),
                    JList(<<JStr("="), JList(<<JStr("field-id"), JInt(111)>>),
                            JInt(5)>>)>>)>>)

\* a query that reads a card and joins the same card
QTwice(card) ==
    JDict(<<"database", "query">>,
          <<JInt(1),
            JDict(<<"source-table", "joins">>,
                  <<CardRef(card),
                    JList(<<JDict(<<"source-table">>, <<CardRef(card)>>)>>)>>)>>)

Scenarios ==
    {"plain", "nofield", "stranger", "nulldesc", "forward", "loose", "attached",
     "oddperm", "twice"}

FixtureStore(sc) ==
    [database |->
        {[id |-> 1, name |-> ProdDb], [id |-> 2, name |-> QaDb],
         [id |-> 3, name |-> DevDb]},
     table |->
        {[id |-> 11, db_id |-> 1, schema |-> "public", name |-> "orders"],
         [id |-> 12, db_id |-> 2, schema |-> "public", name |-> "orders"],
         [id |-> 13, db_id |-> 3, schema |-> "public", name |-> "orders"],
         [id |-> 14, db_id |-> 2, schema |-> "public", name |-> "users"]},
     field |->
        {[id |-> 111, table_id |-> 11, name |-> "total"],
         [id |-> 121, table_id |-> 12, name |-> "total"],
         [id |-> 122, table_id |-> 12, name |-> "id"],
         [id |-> 141, table_id |-> 14, name |-> "total"]}
        \cup (IF sc \in {"nofield", "loose"} THEN {}
              ELSE {[id |-> 131, table_id |-> 13, name |-> "total"]}),
     collection |->
        {[id |-> 1, location |-> <<Slash>>, name |-> EnvsName,
          description |-> Text(TRUE, <<>>)],
         [id |-> 2, location |-> <<Slash, 1, Slash>>, name |-> ProdName,
          description |-> Text(sc = "nulldesc",
                               IF sc = "nulldesc" THEN <<>>
                               ELSE <<"a", "l", "l", " ">> \o ProdName)],
         [id |-> 3, location |-> <<Slash, 1, Slash, 2, Slash>>, name |-> SalesName,
          description |-> Text(TRUE, <<>>)]}
        \cup (IF sc \in {"stranger", "attached"}
              THEN {[id |-> 4, location |-> <<Slash, 1, Slash>>, name |-> MiscName,
                     description |-> Text(TRUE, <<>>)]}
              ELSE {}),
     card |->
        {[id |-> 1, collection_id |-> 2, name |-> "revenue",
          dataset_query |-> json_dumps(IF sc = "forward" THEN QNested(2)
                                       ELSE IF sc = "loose" THEN QTable
                                       ELSE Q1)],
         [id |-> 2, collection_id |-> 3, name |-> "top",
          dataset_query |-> json_dumps(IF sc = "forward" THEN Q1
                                       ELSE IF sc = "loose" THEN QNestedFiltered(1)
                                       ELSE IF sc = "twice" THEN QTwice(1)
                                       ELSE QNested(1))]}
        \cup (IF sc \in {"stranger", "attached"}
              THEN {[id |-> 9, collection_id |-> 4, name |-> "other",
                     dataset_query |-> json_dumps(Q9)]}
              ELSE {}),
     dashboard |->
        {[id |-> 1, collection_id |-> 3, name |-> "board"]},
     dashcard |->
        {[id |-> 1, dashboard_id |-> 1, card_id |-> 1,
          parameter_mappings |-> json_dumps(PM1)],
         [id |-> 2, dashboard_id |-> 1, card_id |-> 0,
          parameter_mappings |-> json_dumps(JList(<<>>))]}
        \cup (IF sc \in {"stranger", "attached"}
              THEN {[id |-> 3, dashboard_id |-> 1, card_id |-> 9,
                     parameter_mappings |-> json_dumps(JList(<<>>))]}
              ELSE {}),
     series |->
        {[id |-> 1, dashboardcard_id |-> 1, card_id |-> 2]}
        \cup (IF sc = "attached"
              THEN {[id |-> 2, dashboardcard_id |-> 3, card_id |-> 2]}
              ELSE {}),
     perm |->
        {[id |-> 1, group_id |-> 1,
          object |-> <<Slash, WordCollection, Slash, 2, Slash, WordRead, Slash>>],
         [id |-> 2, group_id |-> 2,
          object |-> <<Slash, WordCollection, Slash, 3, Slash>>]}
        \cup (IF sc = "oddperm"
              THEN {[id |-> 3, group_id |-> 1,
                     object |-> <<Slash, WordCollection, Slash, 7, Slash, 2, Slash>>]}
              ELSE {})]

\* every sequence has handed out the ids of its table and no more
FixtureSeq(tables) ==
    [tbl \in CopiedTables |->
        IF tables[tbl] = {} THEN 0 ELSE Max({r.id : r \in tables[tbl]})]

-----------------------------------------------------------------------------
(* The commands: copy (bulk copy), copy_collection and copy_question        *)

\* at most this many commands are run one after another
MaxRuns == 2

NoMaps ==
    [collections |-> EmptyMap, cards |-> EmptyMap,
     dashboards |-> EmptyMap, dashboardcards |-> EmptyMap]

EmptyCtx ==
    [databases |-> EmptyMap, targets |-> <<>>, root |-> 0, base_id |-> 0,
     base |-> <<>>, cache |-> EmptyCache, maps |-> NoMaps]

Tables(st_store) == [tbl \in CopiedTables |-> st_store[tbl]]

NoArgs ==
    [op |-> "none", alls |-> <<>>, base |-> <<>>, only |-> <<>>,
     rollback |-> FALSE, collection |-> 0, database |-> <<>>, question |-> 0]

\* what is noted of the run under way: the tables after each delete of the
\* teardown and after it, the passes done, the rows inserted in order
NoCur ==
    [afterDrop |-> [tbl \in CopiedTables |-> {}], passes |-> <<>>,
     dropSteps |-> <<>>, log |-> <<>>,
     afterReset |-> [tbl \in CopiedTables |-> 0]]

NoRun ==
    [valid |-> FALSE, args |-> NoArgs, outcome |-> "none", err |-> "",
     pre |-> [tables |-> [tbl \in CopiedTables |-> {}],
              seq |-> [tbl \in CopiedTables |-> 0]],
     post |-> [tables |-> [tbl \in CopiedTables |-> {}],
               seq |-> [tbl \in CopiedTables |-> 0]],
     afterDrop |-> [tbl \in CopiedTables |-> {}],
     passes |-> <<>>,
     maps |-> NoMaps, databases |-> EmptyMap, base |-> {},
     dropSteps |-> <<>>, log |-> <<>>,
     afterReset |-> [tbl \in CopiedTables |-> 0],
     issued |-> [tbl \in CopiedTables |-> 0]]

\* the state a pass works on, from the variables
St ==
    [store |-> store, seq |-> seq, cache |-> ctx.cache,
     cards |-> SomeCards(ctx.maps.cards),
     collections |-> ctx.maps.collections,
     dashboards |-> ctx.maps.dashboards,
     dashboardcards |-> ctx.maps.dashboardcards,
     reads |-> 0, log |-> hist.cur.log, issued |-> hist.issued]

MapsOf(st) ==
    [collections |-> st.collections, cards |-> st.cards.m,
     dashboards |-> st.dashboards, dashboardcards |-> st.dashboardcards]

\* only.split(",") when only is given
OnlyList(only) == IF only = <<>> THEN <<>> ELSE SplitComma(only, <<>>)

\* lines 641-688 of copy: the base database, the targets, the root and base
\* collections, the source set
ResolveCopy(tables, a) ==
    LET base == LowerStr(a.base)
        base_name == base \o <<" ">>
        matches == {r \in tables.database :
                      IsPrefix(base_name, LowerStr(r.name)) \/ LowerStr(r.name) = base}
        roots == {c \in tables.collection :
                    c.location = <<Slash>> /\ c.name = a.alls}
    IN  IF Cardinality(matches) # 1 THEN [ok |-> FALSE, err |-> "ValueError"]
        ELSE LET base_database_id == (CHOOSE r \in matches : TRUE).id
                 only == OnlyList(a.only)
                 dbs == {r \in tables.database :
                           r.id # base_database_id /\ should_process(r.name, only)}
             IN  IF Cardinality(roots) # 1 THEN [ok |-> FALSE, err |-> "NotFound"]
                 ELSE LET root == (CHOOSE c \in roots : TRUE).id
                          bases == {c \in tables.collection :
                                      /\ IsPrefix(<<Slash, root, Slash>>, c.location)
                                      /\ (LowerStr(c.name) = base_name \/ c.name = base)}
                      IN  IF Cardinality(bases) # 1 THEN [ok |-> FALSE, err |-> "NotFound"]
                          ELSE LET b == CHOOSE c \in bases : TRUE
                                   under == {c \in tables.collection :
                                               IsPrefix(<<Slash, root, Slash, b.id, Slash>>,
                                                        c.location)}
                               IN  [ok |-> TRUE, err |-> "",
                                    databases |-> [i \in {r.id : r \in dbs} |->
                                                     RowOf(tables.database, i).name],
                                    targets |-> SortedSeq({r.id : r \in dbs}),
                                    only |-> only,
                                    root |-> root, base_id |-> b.id,
                                    base |-> Append(RowSeq(tables.collection,
                                                           {c.id : c \in under}), b)]

\* lines 537-560 of copy_collection
ResolveCopyCollection(tables, a) ==
    LET sources == RowsById(tables.collection, a.collection)
        dbs == {r \in tables.database : IsPrefix(a.database, r.name) \/ r.name = a.database}
    IN  IF Cardinality(sources) # 1 \/ Cardinality(dbs) # 1
        THEN [ok |-> FALSE, err |-> "NotFound"]
        ELSE LET source == CHOOSE c \in sources : TRUE
                 d == CHOOSE r \in dbs : TRUE
                 under == {c \in tables.collection :
                             IsPrefix(source.location \o <<source.id, Slash>>, c.location)}
             IN  [ok |-> TRUE, err |-> "",
                  databases |-> [i \in {d.id} |-> d.name],
                  targets |-> <<d.id>>,
                  only |-> <<>>,
                  root |-> 0, base_id |-> source.id,
                  base |-> Append(RowSeq(tables.collection, {c.id : c \in under}), source)]

RunRecord(outcome, err, st_store, st_seq, maps) ==
    [valid |-> TRUE, args |-> args, outcome |-> outcome, err |-> err,
     pre |-> [tables |-> Tables(snap.store), seq |-> snap.seq],
     post |-> [tables |-> Tables(st_store), seq |-> st_seq],
     afterDrop |-> hist.cur.afterDrop,
     passes |-> hist.cur.passes,
     maps |-> maps, databases |-> ctx.databases,
     base |-> {c.id : c \in Range(ctx.base)},
     dropSteps |-> hist.cur.dropSteps, log |-> hist.cur.log,
     afterReset |-> hist.cur.afterReset,
     issued |-> snap.issued]

\* the command ends with `log` the rows it inserted and `issued` the last id
\* each sequence handed out: hist keeps the last two runs
EndRunLogged(outcome, err, st_store, st_seq, maps, log, issued) ==
    /\ store' = st_store
    /\ seq' = st_seq
    /\ pc' = "idle"
    /\ ctx' = EmptyCtx
    /\ hist' = [runs |-> hist.runs + 1,
                prev |-> hist.last,
                last |-> [RunRecord(outcome, err, st_store, st_seq, maps)
                            EXCEPT !.log = log],
                cur |-> NoCur,
                issued |-> issued]
    /\ UNCHANGED <<args, snap, fn>>

EndRun(outcome, err, st_store, st_seq, maps) ==
    EndRunLogged(outcome, err, st_store, st_seq, maps, hist.cur.log, hist.issued)

\* an exception leaves the transaction block
Abort(outcome, err, st) ==
    EndRunLogged(outcome, err, Rollback(snap.store, st.store), st.seq, MapsOf(st),
                 st.log, st.issued)

\* a pass ended: on to the next one, or out by its exception
Advance(r, next, pass) ==
    IF r.ok
    THEN /\ store' = r.st.store
         /\ seq' = r.st.seq
         /\ ctx' = [ctx EXCEPT !.cache = r.st.cache, !.maps = MapsOf(r.st)]
         /\ pc' = next
         /\ hist' = [hist EXCEPT !.cur.passes = Append(@, pass),
                                 !.cur.log = r.st.log,
                                 !.issued = r.st.issued]
         /\ UNCHANGED <<args, snap, fn>>
    ELSE Abort("failed", r.err, r.st)

OnlyChoices ==
    {<<>>, <<"q", "a">>, <<"q", "a", ",", " ", "d", "e", "v">>}

\* labels that name nothing in the store, and an allow-list no database is on
TestName == <<"t", "e", "s", "t">>
NoneListed == <<"z", "z">>

CopyArgs ==
    {[op |-> "copy", alls |-> EnvsName, base |-> ProdName, only |-> o,
      rollback |-> rb, collection |-> 0, database |-> <<>>, question |-> 0] :
        o \in OnlyChoices, rb \in BOOLEAN}
    \cup
    {[op |-> "copy", alls |-> l[1], base |-> l[2], only |-> l[3],
      rollback |-> FALSE, collection |-> 0, database |-> <<>>, question |-> 0] :
        l \in {<<EnvsName, TestName, <<>> >>, <<TestName, ProdName, <<>> >>,
               <<EnvsName, <<"q", "a">>, <<>> >>, <<EnvsName, ProdName, NoneListed>>}}

CopyCollectionArgs ==
    {[op |-> "copy_collection", alls |-> <<>>, base |-> <<>>, only |-> <<>>,
      rollback |-> rb, collection |-> c, database |-> <<"Q">>, question |-> 0] :
        c \in {2, 3}, rb \in BOOLEAN}

CopyQuestionArgs ==
    {[op |-> "copy_question", alls |-> <<>>, base |-> <<>>, only |-> <<>>,
      rollback |-> FALSE, collection |-> 0, database |-> d, question |-> q] :
        d \in {<<"Q">>, <<"D">>}, q \in {1, 2}}

\* a command starts: its lookups, then the transaction is entered
Start(a, r, first) ==
    /\ pc = "idle"
    /\ hist.runs < MaxRuns
    /\ args' = a
    /\ snap' = [store |-> store, seq |-> seq, issued |-> hist.issued]
    /\ IF r.ok
       THEN /\ ctx' = [EmptyCtx EXCEPT !.databases = r.databases,
                                       !.targets = r.targets,
                                       !.root = r.root,
                                       !.base_id = r.base_id,
                                       !.base = r.base]
            /\ pc' = first
            /\ hist' = [hist EXCEPT !.cur = NoCur]
            /\ UNCHANGED <<store, seq, fn>>
       ELSE /\ pc' = "idle"
            /\ ctx' = EmptyCtx
            /\ hist' = [runs |-> hist.runs + 1,
                        prev |-> hist.last,
                        last |-> [NoRun EXCEPT
                                    !.valid = TRUE, !.args = a,
                                    !.outcome = "config", !.err = r.err,
                                    !.pre = [tables |-> Tables(store), seq |-> seq],
                                    !.post = [tables |-> Tables(store), seq |-> seq],
                                    !.issued = hist.issued],
                        cur |-> NoCur,
                        issued |-> hist.issued]
            /\ UNCHANGED <<store, seq, fn>>

StartCopy ==
    \E a \in CopyArgs : Start(a, ResolveCopy(store, a), "drop")

StartCopyCollection ==
    \E a \in CopyCollectionArgs :
        Start(a, ResolveCopyCollection(store, a), "collections")

\* lines 602-614 of copy_question: the card and the target database
ResolveCopyQuestion(tables, a) ==
    LET sources == RowsById(tables.card, a.question)
        dbs == {r \in tables.database : IsPrefix(a.database, r.name) \/ r.name = a.database}
    IN  IF Cardinality(sources) # 1 \/ Cardinality(dbs) # 1
        THEN [ok |-> FALSE, err |-> "NotFound"]
        ELSE [ok |-> TRUE, err |-> "",
              source_card |-> CHOOSE c \in sources : TRUE,
              databases |-> [i \in {r.id : r \in dbs} |-> (CHOOSE r \in dbs : TRUE).name],
              targets |-> <<(CHOOSE r \in dbs : TRUE).id>>]

\* a command that is one step and enters no transaction ends: what it wrote
\* before it stopped is in the store
EndUnguarded(a, r) ==
    /\ args' = a
    /\ snap' = [store |-> store, seq |-> seq, issued |-> hist.issued]
    /\ store' = r.st.store
    /\ seq' = r.st.seq
    /\ pc' = "idle"
    /\ ctx' = EmptyCtx
    /\ hist' = [runs |-> hist.runs + 1,
                prev |-> hist.last,
                last |-> [NoRun EXCEPT
                            !.valid = TRUE, !.args = a,
                            !.outcome = IF r.ok THEN "committed" ELSE "failed",
                            !.err = r.err,
                            !.pre = [tables |-> Tables(store), seq |-> seq],
                            !.post = [tables |-> Tables(r.st.store), seq |-> r.st.seq],
                            !.log = r.st.log,
                            !.issued = hist.issued],
                cur |-> NoCur,
                issued |-> r.st.issued]
    /\ UNCHANGED fn

\* copy_question: copy_card(db, source_card, databases), cards and collections
\* left None, outside any transaction
CopyQuestion ==
    \E a \in CopyQuestionArgs :
        /\ pc = "idle"
        /\ hist.runs < MaxRuns
        /\ IF ResolveCopyQuestion(store, a).ok
           THEN EndUnguarded(a, copy_card([St EXCEPT !.cards = NoCards],
                                          ResolveCopyQuestion(store, a).source_card,
                                          ResolveCopyQuestion(store, a).targets,
                                          NoCards))
           ELSE EndUnguarded(a, Fail(ResolveCopyQuestion(store, a).err, St))

DropCollections ==
    /\ pc = "drop"
    /\ store' = drop_collections(store, ctx.root, ctx.base_id, OnlyList(args.only))
    /\ pc' = "reset"
    /\ hist' = [hist EXCEPT !.cur.afterDrop = Tables(store'),
                            !.cur.passes = Append(@, "drop"),
                            !.cur.dropSteps =
                                [i \in DOMAIN DropSteps(store, ctx.root, ctx.base_id,
                                                        OnlyList(args.only)) |->
                                    Tables(DropSteps(store, ctx.root, ctx.base_id,
                                                     OnlyList(args.only))[i])]]
    /\ UNCHANGED <<seq, args, ctx, snap, fn>>

ResetSequences ==
    /\ pc = "reset"
    /\ seq' = reset_sequences(store, seq)
    /\ pc' = "collections"
    /\ hist' = [hist EXCEPT !.cur.passes = Append(@, "reset"),
                            !.cur.afterReset = seq']
    /\ UNCHANGED <<store, args, ctx, snap, fn>>

CopyCollections ==
    /\ pc = "collections"
    /\ Advance(copy_collections(St, ctx.base, ctx.targets, ctx.databases),
               "permissions", "collections")

CopyPermissions ==
    /\ pc = "permissions"
    /\ Advance(copy_permissions(St, ctx.targets), "dashboardcards", "permissions")

CopyDashboardCards ==
    /\ pc = "dashboardcards"
    /\ Advance(copy_dashboardcards(St, ctx.targets), "cardseries", "dashboardcards")

CopyCardSeries ==
    /\ pc = "cardseries"
    /\ Advance(copy_cardseries(St, ctx.targets), "finish", "cardseries")

\* if rollback: raise Exception("rollback transaction"); else the block ends
\* and the transaction commits
Finish ==
    /\ pc = "finish"
    /\ IF args.rollback
       THEN Abort("rolledback", "rollback transaction", St)
       ELSE EndRun("committed", "", store, seq, ctx.maps)

Init ==
    /\ \E sc \in Scenarios :
          /\ store = FixtureStore(sc)
          /\ seq = FixtureSeq(FixtureStore(sc))
          /\ snap = [store |-> FixtureStore(sc), seq |-> FixtureSeq(FixtureStore(sc)),
                     issued |-> FixtureSeq(FixtureStore(sc))]
          /\ hist = [runs |-> 0, prev |-> NoRun, last |-> NoRun, cur |-> NoCur,
                     issued |-> FixtureSeq(FixtureStore(sc))]
    /\ pc = "idle"
    /\ args = NoArgs
    /\ ctx = EmptyCtx
    /\ fn = [op |-> "none"]

Next ==
    \/ StartCopy
    \/ StartCopyCollection
    \/ CopyQuestion
    \/ DropCollections
    \/ ResetSequences
    \/ CopyCollections
    \/ CopyPermissions
    \/ CopyDashboardCards
    \/ CopyCardSeries
    \/ Finish

Spec == Init /\ [][Next]_vars

-----------------------------------------------------------------------------
(* remap_collection_location on its own: every location of up to MaxSegs    *)
(* segments, every id map over the segment ids                              *)

MaxSegs == 3
SegIds == {1, 2, 3}
PathTarget == 2

RECURSIVE SegSeqs(_)
SegSeqs(n) ==
    IF n = 0 THEN {<<>>}
    ELSE SegSeqs(n - 1)
         \cup {Append(p, x) : p \in {q \in SegSeqs(n - 1) : Len(q) = n - 1}, x \in SegIds}

\* an entry of the map: none, one for the target, or one for another target only
PathEntries(k) ==
    {EmptyMap, [t \in {PathTarget} |-> 10 * k], [t \in {PathTarget + 1} |-> 10 * k]}

PathMaps ==
    {[k \in {x \in SegIds : e[x] # EmptyMap} |-> e[k]] :
        e \in {f \in [SegIds -> UNION {PathEntries(k) : k \in SegIds}] :
                 \A k \in SegIds : f[k] \in PathEntries(k)}}

Idle ==
    /\ store = FixtureStore("plain")
    /\ seq = FixtureSeq(FixtureStore("plain"))
    /\ snap = [store |-> FixtureStore("plain"), seq |-> FixtureSeq(FixtureStore("plain")),
               issued |-> FixtureSeq(FixtureStore("plain"))]
    /\ pc = "idle"
    /\ args = NoArgs
    /\ ctx = EmptyCtx
    /\ hist = [runs |-> 0, prev |-> NoRun, last |-> NoRun, cur |-> NoCur,
               issued |-> FixtureSeq(FixtureStore("plain"))]

InitPath ==
    /\ Idle
    /\ \E segs \in SegSeqs(MaxSegs), m \in PathMaps :
          fn = [op |-> "path", location |-> JoinedLocation(segs),
                target |-> PathTarget, collections |-> m, done |-> FALSE,
                out |-> [ok |-> FALSE, err |-> "", val |-> <<>>]]

RemapLocation ==
    /\ fn.op = "path"
    /\ ~fn.done
    /\ fn' = [fn EXCEPT !.done = TRUE,
                        !.out = remap_collection_location(fn.location, fn.target,
                                                          fn.collections)]
    /\ UNCHANGED <<store, seq, pc, args, ctx, snap, hist>>

NextPath == RemapLocation

SpecPath == InitPath /\ [][NextPath]_vars

-----------------------------------------------------------------------------
(* remap_collection on its own: collections at "/" and under one or two     *)
(* ancestors, with and without a description, every id map over the ids     *)

\* the locations a stored collection can have with up to two ancestors; the
\* location of a collection without ancestors is "/"
RenameLocations ==
    {<<Slash>>} \cup {JoinedLocation(segs) : segs \in SegSeqs(2) \ {<<>>}}

RenameDescriptions(name) ==
    {Text(TRUE, <<>>), Text(FALSE, <<"a", "l", "l", " ">> \o name),
     Text(FALSE, <<"k", "p", "i">>)}

RenameDatabases == [t \in {PathTarget, PathTarget + 1} |-> IF t = 2 THEN QaDb ELSE DevDb]

InitRename ==
    /\ Idle
    /\ \E l \in RenameLocations, m \in PathMaps, n \in {ProdName, SalesName} :
          \E d \in RenameDescriptions(n) :
              fn = [op |-> "rename",
                    collection |-> [id |-> 3, location |-> l, name |-> n,
                                    description |-> d],
                    target |-> PathTarget, collections |-> m, done |-> FALSE,
                    out |-> [ok |-> FALSE, err |-> "",
                             val |-> [id |-> 3, location |-> l, name |-> n,
                                      description |-> d]]]

RemapCollection ==
    /\ fn.op = "rename"
    /\ ~fn.done
    /\ fn' = [fn EXCEPT
                !.done = TRUE,
                !.out = [ok |-> remap_collection([St EXCEPT !.collections = fn.collections],
                                                 fn.collection, fn.target,
                                                 RenameDatabases).ok,
                         err |-> remap_collection([St EXCEPT !.collections = fn.collections],
                                                  fn.collection, fn.target,
                                                  RenameDatabases).err,
                         val |-> IF remap_collection(
                                        [St EXCEPT !.collections = fn.collections],
                                        fn.collection, fn.target, RenameDatabases).ok
                                 THEN remap_collection(
                                        [St EXCEPT !.collections = fn.collections],
                                        fn.collection, fn.target, RenameDatabases).val
                                 ELSE fn.collection]]
    /\ UNCHANGED <<store, seq, pc, args, ctx, snap, hist>>

NextRename == RemapCollection

SpecRename == InitRename /\ [][NextRename]_vars

-----------------------------------------------------------------------------
(* copy_question call by call: the chain of copy_card calls that            *)
(* remap_table opens for nested card__<id> references when no card map is   *)
(* passed, over every way two cards can read from each other and themselves *)

NestCards == {1, 2}

\* the cards a card's query reads from, in the order remap_query meets them
NestRefs == {<<>>} \cup {<<x>> : x \in NestCards} \cup (NestCards \X NestCards)

\* a query that reads card a and joins card b
QJoins(a, b) ==
    JDict(<<"database", "query">>,
          <<JInt(1),
            JDict(<<"source-table", "joins">>,
                  <<CardRef(a),
                    JList(<<JDict(<<"source-table">>, <<CardRef(b)>>)>>)>>)>>)

NestQuery(refs) ==
    IF refs = <<>> THEN QTable
    ELSE IF Len(refs) = 1 THEN QNested(refs[1])
    ELSE QJoins(refs[1], refs[2])

\* the store whose cards read from each other as `graph` says
NestStore(graph) ==
    [FixtureStore("plain") EXCEPT
        !.card = {[id |-> c, collection_id |-> 2, name |-> "card",
                   dataset_query |-> json_dumps(NestQuery(graph[c]))] : c \in NestCards}]

\* a copy_card call that is under way: the card, and the index of the next
\* reference of its query to rewrite
Frame(card) == [card |-> card, i |-> 1]

\* (CallInPlace: the nested call takes the place of its caller, so the chain
\* of calls never grows and no recursion limit is met.)
CallInPlace(stack, card) == [stack EXCEPT ![Len(stack)] = Frame(card)]

\* remap_table awaits copy_card: one more call on the chain
Call(stack, card) == Append(stack, Frame(card))

InitNest ==
    /\ Idle
    /\ \E g \in [NestCards -> NestRefs], q \in NestCards :
          fn = [op |-> "nest", graph |-> g, question |-> q,
                stack |-> <<Frame(q)>>, inserted |-> 0, done |-> FALSE,
                ok |-> FALSE, err |-> ""]

\* the innermost call meets the next card__<id> of its query: the interpreter
\* refuses a chain of more than MaxNest nested calls (RecursionError, which
\* leaves every call of the chain), otherwise the nested card's copy_card
\* starts
NestedCall ==
    /\ fn.op = "nest"
    /\ ~fn.done
    /\ fn.stack[Len(fn.stack)].i <= Len(fn.graph[fn.stack[Len(fn.stack)].card])
    /\ fn' = IF Len(fn.stack) > MaxNest
             THEN [fn EXCEPT !.done = TRUE, !.err = "RecursionError"]
             ELSE [fn EXCEPT !.stack =
                      Call(fn.stack,
                           fn.graph[fn.stack[Len(fn.stack)].card]
                                   [fn.stack[Len(fn.stack)].i])]
    /\ UNCHANGED <<store, seq, pc, args, ctx, snap, hist>>

\* the innermost call has rewritten its whole query: it inserts its card and
\* returns the new id to its caller, or to copy_question
CardInserted ==
    /\ fn.op = "nest"
    /\ ~fn.done
    /\ fn.stack[Len(fn.stack)].i > Len(fn.graph[fn.stack[Len(fn.stack)].card])
    /\ fn' = IF Len(fn.stack) = 1
             THEN [fn EXCEPT !.inserted = @ + 1, !.done = TRUE, !.ok = TRUE,
                             !.stack = <<>>]
             ELSE [fn EXCEPT !.inserted = @ + 1,
                             !.stack = [SubSeq(@, 1, Len(@) - 1) EXCEPT
                                           ![Len(@) - 1].i = @ + 1]]
    /\ UNCHANGED <<store, seq, pc, args, ctx, snap, hist>>

NextNest == NestedCall \/ CardInserted

\* the interpreter goes on running the chain of calls as long as it can
SpecNest == InitNest /\ [][NextNest]_vars /\ WF_vars(NextNest)

-----------------------------------------------------------------------------
(* The four caches of one run: tables, fields and queries resolved one      *)
(* after the other, in any order, over the same db._cache                   *)

MaxLookups == 3

CacheStores == {"plain", "nofield"}

CacheTargets == {2, 3}

\* tables and fields of the store, and an id of neither
CacheTableIds == {11, 14, 15}

CacheFieldIds == {111, 122, 141, 199}

QUsers ==
    JDict(<<"database", "query">>,
          <<JInt(2),
            JDict(<<"source-table", "filter">>,
                  <<JInt(14),
                    JList(<<JStr("="), JList(<<JStr("field-id"), JInt(141)>>),
                            JInt(5)>>)>>)>>)

CacheQueries == {Q1, QUsers}

NoLookup ==
    [kind |-> "none", x |-> Null, target |-> 0,
     out |-> [ok |-> FALSE, err |-> "", val |-> Null]]

InitCache ==
    /\ \E sc \in CacheStores :
          /\ store = FixtureStore(sc)
          /\ seq = FixtureSeq(FixtureStore(sc))
          /\ snap = [store |-> FixtureStore(sc), seq |-> FixtureSeq(FixtureStore(sc)),
                     issued |-> FixtureSeq(FixtureStore(sc))]
          /\ hist = [runs |-> 0, prev |-> NoRun, last |-> NoRun, cur |-> NoCur,
                     issued |-> FixtureSeq(FixtureStore(sc))]
    /\ pc = "idle"
    /\ args = NoArgs
    /\ ctx = EmptyCtx
    /\ fn = [op |-> "cache", cache |-> EmptyCache, lookups |-> 0, last |-> NoLookup]

\* what a lookup is run on: the store and the given db._cache
CacheSt(cache) ==
    [store |-> store, seq |-> seq, cache |-> cache, cards |-> NoCards,
     collections |-> EmptyMap, dashboards |-> EmptyMap, dashboardcards |-> EmptyMap,
     reads |-> 0, log |-> <<>>, issued |-> seq]

\* one resolution of the run, started from the given db._cache
Resolve(cache, kind, x, target) ==
    IF kind = "table" THEN remap_table(CacheSt(cache), x, target, 0)
    ELSE IF kind = "field" THEN remap_field(CacheSt(cache), x, target, 0)
    ELSE remap_query(CacheSt(cache), x, target, 0)

Resolved(kind, x, target, r) ==
    /\ fn' = [fn EXCEPT !.cache = r.st.cache,
                        !.lookups = @ + 1,
                        !.last = [kind |-> kind, x |-> x, target |-> target,
                                  out |-> [ok |-> r.ok, err |-> r.err, val |-> r.val]]]
    /\ UNCHANGED <<store, seq, pc, args, ctx, snap, hist>>

ResolveTable ==
    /\ fn.op = "cache"
    /\ fn.lookups < MaxLookups
    /\ \E id \in CacheTableIds, t \in CacheTargets :
          Resolved("table", JInt(id), t, Resolve(fn.cache, "table", JInt(id), t))

ResolveField ==
    /\ fn.op = "cache"
    /\ fn.lookups < MaxLookups
    /\ \E id \in CacheFieldIds, t \in CacheTargets :
          Resolved("field", JInt(id), t, Resolve(fn.cache, "field", JInt(id), t))

RewriteQuery ==
    /\ fn.op = "cache"
    /\ fn.lookups < MaxLookups
    /\ \E q \in CacheQueries, t \in CacheTargets :
          Resolved("query", q, t, Resolve(fn.cache, "query", q, t))

NextCache == ResolveTable \/ ResolveField \/ RewriteQuery

SpecCache == InitCache /\ [][NextCache]_vars

-----------------------------------------------------------------------------
(* remap_query on its own, over the store of the "plain" scenario: every    *)
(* JSON value of the families below, for each target, with the card map of  *)
(* a bulk copy or with cards=None                                           *)

QueryKeys == {"database", "source-table", "fingerprint", "card_id", "filter"}

Leaves == {Null, JInt(111), JInt(11), JStr("field-id"), CardRef(1)}

Shallow ==
    Leaves
    \cup {JList(<<>>), JDict(<<>>, <<>>)}
    \cup {JList(<<a>>) : a \in Leaves}
    \cup {JList(<<a, b>>) : a \in Leaves, b \in Leaves}
    \cup {JDict(<<k>>, <<a>>) : k \in QueryKeys, a \in Leaves}

Queries ==
    Shallow
    \cup {JList(<<a>>) : a \in Shallow}
    \cup {JList(<<a, b>>) : a \in Leaves, b \in Shallow}
    \cup {JList(<<a, b>>) : a \in Shallow, b \in Leaves}
    \cup {JDict(<<k>>, <<a>>) : k \in QueryKeys, a \in Shallow}
    \cup {JDict(<<kl[1], kl[2]>>, <<a, b>>) :
            kl \in {x \in QueryKeys \X QueryKeys : x[1] # x[2]},
            a \in Leaves, b \in Leaves}
    \cup {Q1, QNested(1), Q9, PM1,
          JList(<<JDict(<<"filter">>,
                        <<JList(<<JDict(<<"fingerprint">>, <<Q1>>)>>)>>)>>)}

QueryCards ==
    {NoCards, SomeCards([c \in {1} |-> [t \in {2, 3} |-> 100 * t + c]])}

InitQuery ==
    /\ Idle
    /\ \E q \in Queries, t \in {2, 3}, cs \in QueryCards :
          fn = [op |-> "query", query |-> q, target |-> t, cards |-> cs,
                done |-> FALSE, out |-> [ok |-> FALSE, err |-> "", val |-> Null],
                reads |-> 0]

\* what remap_query is run on: the store, an empty cache, the card map
QuerySt ==
    [store |-> store, seq |-> seq, cache |-> EmptyCache, cards |-> fn.cards,
     collections |-> EmptyMap, dashboards |-> EmptyMap, dashboardcards |-> EmptyMap,
     reads |-> 0, log |-> <<>>, issued |-> seq]

Rewritten(r) ==
    /\ fn' = [fn EXCEPT !.done = TRUE,
                        !.out = [ok |-> r.ok, err |-> r.err, val |-> r.val],
                        !.reads = r.st.reads]
    /\ store' = r.st.store
    /\ seq' = r.st.seq
    /\ UNCHANGED <<pc, args, ctx, snap, hist>>

RemapQuery ==
    /\ fn.op = "query"
    /\ ~fn.done
    /\ Rewritten(remap_query(QuerySt, fn.query, fn.target, 0))

NextQuery == RemapQuery

SpecQuery == InitQuery /\ [][NextQuery]_vars

-----------------------------------------------------------------------------
(* Properties of the commands                                               *)

LastRun == hist.last
PrevRun == hist.prev

\* the run ended, and it was a copy (bulk copy) or a copy_collection that got
\* past its lookups
RanCommand(r) ==
    /\ r.valid
    /\ r.args.op \in {"copy", "copy_collection"}
    /\ r.outcome \in {"failed", "rolledback", "committed"}

\* C1 (atomicity): when a step of a bulk copy or of a copy_collection fails,
\* the collection, card, dashboard, dashboard-card, card-series and permission
\* tables are, after the run, exactly as they were before it.
AtomicOnFailure ==
    (pc = "idle" /\ RanCommand(LastRun) /\ LastRun.outcome = "failed")
        => Tables(store) = LastRun.pre.tables

\* a bulk copy whose teardown deleted rows and whose copy pass then failed
FailedAfterTeardown ==
    /\ pc = "idle"
    /\ LastRun.valid
    /\ LastRun.outcome = "failed"
    /\ LastRun.args.op = "copy"
    /\ LastRun.afterDrop # LastRun.pre.tables
    /\ LastRun.post.seq # LastRun.pre.seq

\* C2 (dry run): a run with the rollback flag goes through every pass and then
\* aborts, and all the stored state the tool touches, the six tables and their
\* sequences, is after the run what it was before.
DryRunLeavesNoTrace ==
    (pc = "idle" /\ LastRun.valid /\ LastRun.outcome = "rolledback")
        => /\ Tables(store) = LastRun.pre.tables
           /\ seq = LastRun.pre.seq

\* the second of two bulk copies run one after the other with the same
\* arguments, both committed
Rerun ==
    /\ pc = "idle"
    /\ PrevRun.valid /\ LastRun.valid
    /\ PrevRun.args.op = "copy"
    /\ LastRun.args = PrevRun.args
    /\ PrevRun.outcome = "committed"
    /\ LastRun.outcome = "committed"

\* the rows of a table without their ids and without the ids they refer to
ShapeOf(tables) ==
    [collection |-> {<<c.name, Len(c.location)>> : c \in tables.collection},
     card |-> {c.name : c \in tables.card},
     dashboard |-> {d.name : d \in tables.dashboard},
     perm |-> {<<p.group_id, SubSeq(p.object, 6, Len(p.object))>> : p \in tables.perm},
     count |-> [tbl \in CopiedTables |-> Cardinality(tables[tbl])]]

\* the rows a run wrote
Produced(r, tbl) == {x.id : x \in r.post.tables[tbl]} \ {x.id : x \in r.afterDrop[tbl]}

\* C3 (idempotence of re-run): after a second bulk copy with the same
\* arguments the six tables hold what they held after the first, up to fresh
\* ids, and no row the first run produced is left by the second run's teardown.
RerunSameAsOnce ==
    Rerun =>
        /\ ShapeOf(LastRun.post.tables) = ShapeOf(PrevRun.post.tables)
        /\ \A tbl \in CopiedTables :
              Produced(PrevRun, tbl) \cap {x.id : x \in LastRun.afterDrop[tbl]} = {}

\* a bulk copy that committed
CommittedCopy ==
    /\ pc = "idle"
    /\ LastRun.valid
    /\ LastRun.args.op = "copy"
    /\ LastRun.outcome = "committed"

\* the target contexts an allow-list selects among the databases of the
\* fixtures: "QA" (2) and "Dev 2" (3); "Prod 1" (1) is the base
SelectedTargets(only) == IF only = <<"q", "a">> THEN {2} ELSE {2, 3}

\* the source set in the tables: the rows of the collections `base` and what
\* hangs under them
SourceRows(tables, base, tbl) ==
    LET dashboards == {d.id : d \in {x \in tables.dashboard : x.collection_id \in base}}
        dashcards == {l.id : l \in {x \in tables.dashcard : x.dashboard_id \in dashboards}}
    IN  CASE tbl = "collection" -> {c \in tables.collection : c.id \in base}
          [] tbl = "card" -> {c \in tables.card : c.collection_id \in base}
          [] tbl = "dashboard" -> {d \in tables.dashboard : d.collection_id \in base}
          [] tbl = "dashcard" -> {l \in tables.dashcard : l.dashboard_id \in dashboards}
          [] tbl = "series" -> {l \in tables.series : l.dashboardcard_id \in dashcards}
          [] tbl = "perm" -> {q \in tables.perm :
                                /\ Len(q.object) >= 5
                                /\ q.object[2] = WordCollection
                                /\ q.object[4] \in base}

\* the value under "database" of a card's dataset_query
QueryDatabase(card) ==
    LET q == card.dataset_query.json
    IN  IF \E i \in DOMAIN q.keys : q.keys[i] = "database"
        THEN q.items[CHOOSE i \in DOMAIN q.keys : q.keys[i] = "database"].n
        ELSE 0

\* the cards that are copies of card x for target context t
CardCopies(tables, base, x, t) ==
    {r \in tables.card \ SourceRows(tables, base, "card") :
        r.name = x.name /\ QueryDatabase(r) = t}

\* C4 (completeness): after a bulk copy that commits, every row of the source
\* set has, for every selected target context, a copy, and exactly one: the
\* id maps name an existing row for it, and each source card has exactly one
\* namesake outside the source set whose query is on that context's database.
CopiedExactlyOnce ==
    CommittedCopy =>
        \A t \in SelectedTargets(LastRun.args.only) :
            /\ \A c \in SourceRows(LastRun.post.tables, LastRun.base, "collection") :
                  /\ Has(LastRun.maps.collections, c.id, t)
                  /\ RowsById(LastRun.post.tables.collection,
                              LastRun.maps.collections[c.id][t]) # {}
            /\ \A d \in SourceRows(LastRun.post.tables, LastRun.base, "dashboard") :
                  /\ Has(LastRun.maps.dashboards, d.id, t)
                  /\ RowsById(LastRun.post.tables.dashboard,
                              LastRun.maps.dashboards[d.id][t]) # {}
            /\ \A l \in SourceRows(LastRun.post.tables, LastRun.base, "dashcard") :
                  /\ Has(LastRun.maps.dashboardcards, l.id, t)
                  /\ RowsById(LastRun.post.tables.dashcard,
                              LastRun.maps.dashboardcards[l.id][t]) # {}
            /\ \A x \in SourceRows(LastRun.post.tables, LastRun.base, "card") :
                  /\ Has(LastRun.maps.cards, x.id, t)
                  /\ Cardinality(CardCopies(LastRun.post.tables, LastRun.base, x, t)) = 1

\* table `was` of context-free metadata and table `now` are namesakes, and
\* `now` is a table of database t
SameTable(id, now, t) ==
    /\ now.t = "int"
    /\ \E x \in store.table, y \in store.table :
          /\ x.id = id /\ y.id = now.n
          /\ y.db_id = t /\ y.schema = x.schema /\ y.name = x.name

SameField(id, now, t) ==
    /\ now.t = "int"
    /\ \E f \in store.field, g \in store.field :
          /\ f.id = id /\ g.id = now.n
          /\ g.name = f.name
          /\ SameTable(f.table_id, JInt(g.table_id), t)

\* query b is query a carried over to database t: the same structure, with
\* the database replaced by t and every table and field by its namesake in t
RECURSIVE CarriedOver(_, _, _, _)
CarriedOver(a, b, t, cards) ==
    CASE a.t = "dict" ->
            /\ b.t = "dict" /\ b.keys = a.keys /\ Len(b.items) = Len(a.items)
            /\ \A i \in DOMAIN a.keys :
                  CASE a.keys[i] = "database" -> b.items[i] = JInt(t)
                    [] a.keys[i] = "source-table" ->
                          IF IsCardRef(a.items[i])
                          THEN /\ Has(cards, a.items[i].n, t)
                               /\ b.items[i] = CardRef(cards[a.items[i].n][t])
                          ELSE SameTable(a.items[i].n, b.items[i], t)
                    [] a.keys[i] = "fingerprint" -> b.items[i] = Null
                    [] a.keys[i] = "card_id" ->
                          /\ Has(cards, a.items[i].n, t)
                          /\ b.items[i] = JInt(cards[a.items[i].n][t])
                    [] OTHER -> CarriedOver(a.items[i], b.items[i], t, cards)
      [] a.t = "list" ->
            /\ b.t = "list" /\ Len(b.items) = Len(a.items)
            /\ IF Len(a.items) = 2 /\ a.items[1] = JStr("field-id")
               THEN /\ b.items[1] = JStr("field-id")
                    /\ SameField(a.items[2].n, b.items[2], t)
               ELSE \A i \in DOMAIN a.items : CarriedOver(a.items[i], b.items[i], t, cards)
      [] OTHER -> b = a

\* the ids that occur in a query as database, table or field
RECURSIVE IdsIn(_)
IdsIn(q) ==
    CASE q.t = "dict" ->
            UNION {IF q.keys[i] \in {"database", "source-table"} /\ q.items[i].t = "int"
                   THEN {<<q.keys[i], q.items[i].n>>}
                   ELSE IdsIn(q.items[i]) : i \in DOMAIN q.keys}
      [] q.t = "list" ->
            IF Len(q.items) = 2 /\ q.items[1] = JStr("field-id")
            THEN {<<"field", q.items[2].n>>}
            ELSE UNION {IdsIn(q.items[i]) : i \in DOMAIN q.items}
      [] OTHER -> {}

\* database, table or field `e` belongs to database t
Within(e, t) ==
    CASE e[1] = "database" -> e[2] = t
      [] e[1] = "source-table" -> \E x \in store.table : x.id = e[2] /\ x.db_id = t
      [] e[1] = "field" ->
            \E f \in store.field, x \in store.table :
                f.id = e[2] /\ x.id = f.table_id /\ x.db_id = t

\* C5 (cross-context isolation): at every point of a run, the copy of a card
\* made for target context t has as dataset_query the source's query carried
\* over to t (database t, every table and field the namesake in t), and names
\* no database, table or field of another context.
CopiesStayInContext ==
    \A c \in DOMAIN ctx.maps.cards : \A t \in DOMAIN ctx.maps.cards[c] :
        /\ RowsById(store.card, ctx.maps.cards[c][t]) # {}
        /\ RowsById(store.card, c) # {}
        /\ CarriedOver(RowOf(store.card, c).dataset_query.json,
                       RowOf(store.card, ctx.maps.cards[c][t]).dataset_query.json,
                       t, ctx.maps.cards)
        /\ \A e \in IdsIn(RowOf(store.card, ctx.maps.cards[c][t]).dataset_query.json) :
              Within(e, t)

\* card 1, which reads table "orders" and its field "total", copied into
\* both target contexts in one run
CopiedIntoBoth ==
    /\ pc = "finish"
    /\ args.op = "copy"
    /\ Has(ctx.maps.cards, 1, 2) /\ Has(ctx.maps.cards, 1, 3)
    /\ Has(ctx.maps.cards, 2, 2) /\ Has(ctx.maps.cards, 2, 3)
    /\ <<"field", 111>> \in IdsIn(RowOf(store.card, 1).dataset_query.json)

\* C6 (the source tree is untouched): after any bulk copy run, committed or
\* aborted, every row of the source set is still there with every attribute
\* as before the run.
SourceUntouched ==
    (pc = "idle" /\ LastRun.valid /\ LastRun.args.op = "copy" /\ RanCommand(LastRun))
        => \A tbl \in CopiedTables :
              SourceRows(LastRun.pre.tables, LastRun.base, tbl) \subseteq store[tbl]

\* the tables a run's copy passes started from
Before(r) == IF r.args.op = "copy" THEN r.afterDrop ELSE r.pre.tables

NewPermissions(r) ==
    {q \in r.post.tables.perm : q.id \notin {x.id : x \in Before(r).perm}}

\* C10 (permission fan-out): after a run that committed, a source permission
\* on /collection/<id>/<remainder> whose collection was copied into n target
\* contexts has exactly n new rows, one per context, on
\* /collection/<new id>/<remainder> and with its other attributes; the source
\* row is as it was.
PermissionFanOut ==
    (pc = "idle" /\ LastRun.valid /\ LastRun.outcome = "committed") =>
        \A p \in Before(LastRun).perm :
            (/\ Len(p.object) >= 5
             /\ SubSeq(p.object, 1, 3) = <<Slash, WordCollection, Slash>>
             /\ p.object[5] = Slash
             /\ p.object[4] \in DOMAIN LastRun.maps.collections
             /\ DOMAIN LastRun.maps.collections[p.object[4]] # {})
            => /\ p \in store.perm
               /\ \A t \in DOMAIN LastRun.maps.collections[p.object[4]] :
                     Cardinality(
                        {r \in NewPermissions(LastRun) :
                            [r EXCEPT !.id = p.id,
                                      !.object = SubSeq(@, 1, 3) \o <<p.object[4]>>
                                                 \o SubSeq(@, 5, Len(@))] = p
                            /\ r.object[4] = LastRun.maps.collections[p.object[4]][t]})
                     = 1
               /\ Cardinality(
                     {r \in NewPermissions(LastRun) :
                         /\ r.group_id = p.group_id
                         /\ r.object[4] \in Range(LastRun.maps.collections[p.object[4]])})
                  = Cardinality(DOMAIN LastRun.maps.collections[p.object[4]])

\* the permission on /collection/2/read/ fanned out to both target contexts
FannedOutToBoth ==
    /\ pc = "idle"
    /\ LastRun.valid
    /\ LastRun.outcome = "committed"
    /\ Has(LastRun.maps.collections, 2, 2) /\ Has(LastRun.maps.collections, 2, 3)
    /\ \E p \in Before(LastRun).perm :
          p.object = <<Slash, WordCollection, Slash, 2, Slash, WordRead, Slash>>
    /\ Cardinality(NewPermissions(LastRun)) = 4

-----------------------------------------------------------------------------
(* Properties of remap_collection_location                                  *)

Segments(path) == SelectSeq(path, LAMBDA x : x # Slash)

\* some segment has an entry in the map and a later one has none
BrokenChain(segs, m) ==
    \E i \in DOMAIN segs, j \in DOMAIN segs :
        i < j /\ segs[i] \in DOMAIN m /\ segs[j] \notin DOMAIN m

\* the id map as a run fills it: every entry holds the id for the target
EntriesHoldTarget(m, t) == \A k \in DOMAIN m : t \in DOMAIN m[k]

OnlyFirstMapped == Put(EmptyMap, 1, Put(EmptyMap, PathTarget, 10))

AllThreeMapped ==
    [k \in {1, 2, 3} |-> Put(EmptyMap, PathTarget, 10 * k)]

\* C7 (path remap is all-or-nothing once started): remap_collection_location
\* fails when a segment is found in the map and a later one is not; otherwise
\* it returns the path, between slashes, with every mapped segment replaced by
\* its id in the target context and the segments before the first mapped one
\* as they were.  /1/2/3/ fails with {1:{T:10}} and gives /10/20/30/ with
\* {1:{T:10},2:{T:20},3:{T:30}}.
PathRemapAllOrNothing ==
    (fn.op = "path" /\ fn.done /\ EntriesHoldTarget(fn.collections, fn.target)) =>
        /\ IF BrokenChain(Segments(fn.location), fn.collections)
           THEN ~fn.out.ok
           ELSE /\ fn.out.ok
                /\ Segments(fn.out.val) =
                      [i \in DOMAIN Segments(fn.location) |->
                          IF Segments(fn.location)[i] \in DOMAIN fn.collections
                          THEN fn.collections[Segments(fn.location)[i]][fn.target]
                          ELSE Segments(fn.location)[i]]
                /\ Head(fn.out.val) = Slash
                /\ fn.out.val[Len(fn.out.val)] = Slash
                /\ Segments(fn.location) # <<>>
                      => Len(fn.out.val) = 2 * Len(Segments(fn.location)) + 1
        /\ (fn.location = <<Slash, 1, Slash, 2, Slash, 3, Slash>>
              /\ fn.collections = OnlyFirstMapped) => ~fn.out.ok
        /\ (fn.location = <<Slash, 1, Slash, 2, Slash, 3, Slash>>
              /\ fn.collections = AllThreeMapped)
              => fn.out.val = <<Slash, 10, Slash, 20, Slash, 30, Slash>>

\* /1/2/3/ remapped with {1:{T:10}}: segment 2 is missing after segment 1 was
\* found
StoppedAtSecondSegment ==
    /\ fn.op = "path"
    /\ fn.done
    /\ fn.location = <<Slash, 1, Slash, 2, Slash, 3, Slash>>
    /\ fn.collections = OnlyFirstMapped
    /\ fn.out.err = "ValueError"

-----------------------------------------------------------------------------
(* Properties of remap_query                                                *)

RECURSIVE FingerprintsNull(_)
FingerprintsNull(q) ==
    CASE q.t = "dict" ->
            \A i \in DOMAIN q.keys :
                /\ q.keys[i] = "fingerprint" => q.items[i] = Null
                /\ FingerprintsNull(q.items[i])
      [] q.t = "list" -> \A i \in DOMAIN q.items : FingerprintsNull(q.items[i])
      [] OTHER -> TRUE

RECURSIVE KeysIn(_)
KeysIn(q) ==
    CASE q.t = "dict" ->
            {q.keys[i] : i \in DOMAIN q.keys}
            \cup UNION {KeysIn(q.items[i]) : i \in DOMAIN q.items}
      [] q.t = "list" -> UNION {KeysIn(q.items[i]) : i \in DOMAIN q.items}
      [] OTHER -> {}

\* C8 (fingerprint stripping): in what remap_query returns, every key
\* "fingerprint", at any depth, has the value null, whatever it had in the
\* input.
FingerprintStripped ==
    (fn.op = "query" /\ fn.done /\ fn.out.ok) => FingerprintsNull(fn.out.val)

\* a query with a fingerprint that holds a query with a fingerprint, under a
\* list under a mapping under a list
NestedFingerprintRewritten ==
    /\ fn.op = "query"
    /\ fn.done
    /\ fn.out.ok
    /\ ~FingerprintsNull(fn.query)
    /\ fn.query.t = "list"
    /\ "filter" \in KeysIn(fn.query)
    /\ "fingerprint" \in KeysIn(fn.out.val)

\* no ["field-id", x] pair and no key database, source-table, fingerprint or
\* card_id anywhere in q
RECURSIVE NothingToRemap(_)
NothingToRemap(q) ==
    CASE q.t = "dict" ->
            \A i \in DOMAIN q.keys :
                /\ q.keys[i] \notin {"database", "source-table", "fingerprint", "card_id"}
                /\ NothingToRemap(q.items[i])
      [] q.t = "list" ->
            /\ ~(Len(q.items) = 2 /\ q.items[1] = JStr("field-id"))
            /\ \A i \in DOMAIN q.items : NothingToRemap(q.items[i])
      [] OTHER -> TRUE

\* C9 (query rewrite fixpoint): on a query with nothing to remap, remap_query
\* returns a value equal to its input, keys and element order included, for
\* every target, and neither reads nor writes the store.
RewriteFixpoint ==
    (fn.op = "query" /\ fn.done /\ NothingToRemap(fn.query)) =>
        /\ fn.out.ok
        /\ fn.out.val = fn.query
        /\ fn.reads = 0
        /\ store = FixtureStore("plain")
        /\ seq = FixtureSeq(FixtureStore("plain"))

\* a mapping that holds a list of two different scalars, rewritten
PlainNestedRewritten ==
    /\ fn.op = "query"
    /\ fn.done
    /\ fn.query = JDict(<<"filter">>, <<JList(<<JInt(111), JStr("field-id")>>)>>)
    /\ fn.out.ok


-----------------------------------------------------------------------------
(* Properties of copy_question, of the lookups and of the order of inserts  *)

\* the ids of the rows of tbl that run r inserted, whether they stayed or not
InsertedIds(r, tbl) == {r.log[i].id : i \in {j \in DOMAIN r.log : r.log[j].tbl = tbl}}

\* C11 (no partial artifacts from copy-one-card): when copy_question ends with
\* an error, no card row that this invocation created is in the store.
NoPartialCardAfterFailedQuestion ==
    (pc = "idle" /\ LastRun.valid /\ LastRun.args.op = "copy_question"
        /\ LastRun.outcome = "failed")
        => {c \in store.card : c.id \in InsertedIds(LastRun, "card")} = {}

\* the store as it was before run r (the databases never change)
StoreBefore(r) ==
    [store EXCEPT !.collection = r.pre.tables.collection]

\* the arguments of bulk copy r do not resolve: the base label names no single
\* database, the root or the base collection is not found, or the allow-list
\* leaves no target database
Misconfigured(r) ==
    \/ ~ResolveCopy(StoreBefore(r), r.args).ok
    \/ /\ ResolveCopy(StoreBefore(r), r.args).ok
       /\ ResolveCopy(StoreBefore(r), r.args).targets = <<>>

\* C12 (configuration errors abort before any write): a bulk copy whose base
\* label, root collection, base collection or allow-list does not resolve ends
\* with an error and has inserted nothing, deleted nothing and moved no
\* sequence.
MisconfiguredRunWritesNothing ==
    (pc = "idle" /\ LastRun.valid /\ LastRun.args.op = "copy" /\ Misconfigured(LastRun))
        => /\ LastRun.outcome \in {"config", "failed"}
           /\ LastRun.log = <<>>
           /\ LastRun.dropSteps = <<>>
           /\ LastRun.post.tables = LastRun.pre.tables
           /\ LastRun.post.seq = LastRun.pre.seq

\* the inserts of the run under way, or of the bulk copy or copy_collection
\* that ended last
CurLog ==
    IF pc # "idle" THEN hist.cur.log
    ELSE IF RanCommand(LastRun) THEN LastRun.log
    ELSE <<>>

\* the pass a row of a table is inserted in
Phase(tbl) ==
    CASE tbl \in {"collection", "card", "dashboard"} -> 1
      [] tbl = "perm" -> 2
      [] tbl = "dashcard" -> 3
      [] tbl = "series" -> 4

InPhaseOrder(log) ==
    \A i, j \in DOMAIN log : i < j => Phase(log[i].tbl) <= Phase(log[j].tbl)

\* the source collection whose copy has the id new_id in run r (0: none)
SourceCollectionOf(r, new_id) ==
    IF \E c \in DOMAIN r.maps.collections :
          \E t \in DOMAIN r.maps.collections[c] : r.maps.collections[c][t] = new_id
    THEN CHOOSE c \in DOMAIN r.maps.collections :
          \E t \in DOMAIN r.maps.collections[c] : r.maps.collections[c][t] = new_id
    ELSE 0

CollectionsBefore(log, j) == {i \in 1..(j - 1) : log[i].tbl = "collection"}

\* the source collection of the row that entry j of the log inserted
HomeOf(r, j) ==
    SourceCollectionOf(r, RowOf(store[r.log[j].tbl], r.log[j].id).collection_id)

\* every card and dashboard is inserted after the copies of its own collection
\* and before the copies of any other collection, the cards of a collection
\* before its dashboards
ItemsFollowTheirCollection(r) ==
    \A j \in DOMAIN r.log :
        r.log[j].tbl \in {"card", "dashboard"} =>
            /\ CollectionsBefore(r.log, j) # {}
            /\ HomeOf(r, j) # 0
            /\ HomeOf(r, j) =
                  SourceCollectionOf(r, r.log[Max(CollectionsBefore(r.log, j))].id)
            /\ \A i \in 1..(j - 1) :
                  (r.log[i].tbl = "dashboard" /\ r.log[j].tbl = "card")
                      => HomeOf(r, i) # HomeOf(r, j)

\* the collections are inserted by increasing depth
CollectionsByDepth(r) ==
    \A i, j \in DOMAIN r.log :
        (i < j /\ r.log[i].tbl = "collection" /\ r.log[j].tbl = "collection")
            => CountSlash(RowOf(store.collection, r.log[i].id).location)
                 <= CountSlash(RowOf(store.collection, r.log[j].id).location)

\* C13 (copy-pass ordering, as the code has it): in every bulk copy and
\* copy_collection run the insert events follow the order collections with
\* their cards and dashboards -> permissions -> dashboard-cards -> card-series:
\* the collections by increasing depth, each one's copies directly followed by
\* its cards and then its dashboards; no dashboard-card is inserted before all
\* cards, dashboards and permissions, and no card-series before all
\* dashboard-cards.
CopyPassOrder ==
    /\ InPhaseOrder(CurLog)
    /\ (pc = "idle" /\ RanCommand(LastRun) /\ LastRun.outcome = "committed")
          => /\ ItemsFollowTheirCollection(LastRun)
             /\ CollectionsByDepth(LastRun)

\* a committed bulk copy into two targets that inserted rows of all six tables,
\* a collection among them after a card
InterleavedRun ==
    /\ CommittedCopy
    /\ Cardinality(DOMAIN LastRun.databases) = 2
    /\ \A tbl \in CopiedTables : InsertedIds(LastRun, tbl) # {}
    /\ \E i, j \in DOMAIN LastRun.log :
          i < j /\ LastRun.log[i].tbl = "card" /\ LastRun.log[j].tbl = "collection"

\* the pass a row of a table is inserted in, as the order collections -> cards
\* and dashboards -> dashboard-cards -> card-series -> permissions has it
ClaimedPhase(tbl) ==
    CASE tbl = "collection" -> 1
      [] tbl \in {"card", "dashboard"} -> 2
      [] tbl = "dashcard" -> 3
      [] tbl = "series" -> 4
      [] tbl = "perm" -> 5

\* C13 as stated: no permission row is inserted before every dashboard-card
\* and card-series row of the run, no card or dashboard before every
\* collection.
PermissionsLast ==
    \A i, j \in DOMAIN CurLog :
        i < j => ClaimedPhase(CurLog[i].tbl) <= ClaimedPhase(CurLog[j].tbl)

-----------------------------------------------------------------------------
(* Properties of the copies of a committed run                              *)

\* the id map of run r for a table that has one
MapOf(r, tbl) ==
    CASE tbl = "collection" -> r.maps.collections
      [] tbl = "card" -> r.maps.cards
      [] tbl = "dashboard" -> r.maps.dashboards
      [] tbl = "dashcard" -> r.maps.dashboardcards

\* the ids of the copies run r made for target t in a table
CopyIds(r, tbl, t) ==
    {MapOf(r, tbl)[k][t] : k \in {x \in DOMAIN MapOf(r, tbl) : Has(MapOf(r, tbl), x, t)}}

\* the ids of the source set of run r in a table
SourceIds(r, tbl) == {x.id : x \in SourceRows(r.post.tables, r.base, tbl)}

\* the rows of the copied tables a row refers to, as <<table, id>>
RefsOf(tbl, x) ==
    CASE tbl = "collection" -> {<<"collection", x.location[i]>> :
                                  i \in {j \in DOMAIN x.location : x.location[j] # Slash}}
      [] tbl \in {"card", "dashboard"} -> {<<"collection", x.collection_id>>}
      [] tbl = "dashcard" -> {<<"dashboard", x.dashboard_id>>}
                             \cup (IF x.card_id = 0 THEN {} ELSE {<<"card", x.card_id>>})
      [] tbl = "series" -> {<<"card", x.card_id>>, <<"dashcard", x.dashboardcard_id>>}
      [] tbl = "perm" -> {<<"collection", x.object[4]>>}

\* row x of table tbl refers to copies made for t alone: to no source row and
\* to no copy made for another target (an ancestor outside the source set, such
\* as the root, is no copied row)
RefersWithin(r, tbl, x, t) ==
    \A ref \in RefsOf(tbl, x) :
        \/ ref[2] \in CopyIds(r, ref[1], t)
        \/ /\ tbl = "collection"
           /\ ref[2] \notin SourceIds(r, "collection")
           /\ \A u \in DOMAIN r.databases : ref[2] \notin CopyIds(r, "collection", u)

\* the location of a source collection with its copied ancestors replaced by
\* their copies for t
LocationFor(r, location, t) ==
    [i \in DOMAIN location |->
        IF location[i] \in SourceIds(r, "collection")
        THEN r.maps.collections[location[i]][t]
        ELSE location[i]]

\* the rows run r inserted into a table, as they are in the store
InsertedRows(r, tbl) == {x \in store[tbl] : x.id \in InsertedIds(r, tbl)}

\* C14 (self-consistency of each duplicate): after a bulk copy that commits,
\* for every target context t the copy for t of a source card or dashboard has
\* the t-copy of its collection as collection_id, of a dashboard-card the
\* t-copies of its dashboard and (when not null) of its card, of a card-series
\* the t-copies of its card and dashboard-card, of a permission the t-copy of
\* its collection, of a collection the t-copies of its copied ancestors in its
\* location; and every row the run inserted refers to copies of one target
\* only, never to a source row or to a copy made for another target.
CopiesSelfConsistent ==
    CommittedCopy =>
        /\ \A t \in DOMAIN LastRun.databases :
              /\ \A c \in SourceRows(LastRun.post.tables, LastRun.base, "collection") :
                    /\ Has(LastRun.maps.collections, c.id, t)
                    /\ RowsById(store.collection, LastRun.maps.collections[c.id][t]) # {}
                    /\ RowOf(store.collection, LastRun.maps.collections[c.id][t]).location
                         = LocationFor(LastRun, c.location, t)
              /\ \A tbl \in {"card", "dashboard"} :
                    \A c \in SourceRows(LastRun.post.tables, LastRun.base, tbl) :
                        /\ Has(MapOf(LastRun, tbl), c.id, t)
                        /\ RowsById(store[tbl], MapOf(LastRun, tbl)[c.id][t]) # {}
                        /\ RowOf(store[tbl], MapOf(LastRun, tbl)[c.id][t]).collection_id
                             = LastRun.maps.collections[c.collection_id][t]
              /\ \A l \in SourceRows(LastRun.post.tables, LastRun.base, "dashcard") :
                    /\ Has(LastRun.maps.dashboardcards, l.id, t)
                    /\ RowsById(store.dashcard, LastRun.maps.dashboardcards[l.id][t]) # {}
                    /\ RowOf(store.dashcard, LastRun.maps.dashboardcards[l.id][t]).dashboard_id
                         = LastRun.maps.dashboards[l.dashboard_id][t]
                    /\ RowOf(store.dashcard, LastRun.maps.dashboardcards[l.id][t]).card_id
                         = IF l.card_id = 0 THEN 0 ELSE LastRun.maps.cards[l.card_id][t]
              /\ \A l \in SourceRows(LastRun.post.tables, LastRun.base, "series") :
                    Cardinality({x \in InsertedRows(LastRun, "series") :
                        /\ x.card_id = LastRun.maps.cards[l.card_id][t]
                        /\ x.dashboardcard_id
                             = LastRun.maps.dashboardcards[l.dashboardcard_id][t]}) = 1
              /\ \A q \in SourceRows(LastRun.post.tables, LastRun.base, "perm") :
                    Cardinality({x \in InsertedRows(LastRun, "perm") :
                        /\ x.group_id = q.group_id
                        /\ x.object[4] = LastRun.maps.collections[q.object[4]][t]}) = 1
        /\ \A tbl \in CopiedTables :
              \A x \in InsertedRows(LastRun, tbl) :
                  \E t \in DOMAIN LastRun.databases : RefersWithin(LastRun, tbl, x, t)

\* a committed bulk copy into two targets that copied the placeholder
\* dashboard-card, the card-series and the child collection for both
DuplicatedForBoth ==
    /\ CommittedCopy
    /\ DOMAIN LastRun.databases = {2, 3}
    /\ Has(LastRun.maps.dashboardcards, 2, 2) /\ Has(LastRun.maps.dashboardcards, 2, 3)
    /\ Cardinality(InsertedRows(LastRun, "series")) = 2
    /\ \E x \in InsertedRows(LastRun, "collection") :
          x.location = <<Slash, 1, Slash, LastRun.maps.collections[2][3], Slash>>

\* run r stopped with an exception in the pass that copies the collections
\* with their cards and dashboards
FailedCopyingCollections(r) ==
    /\ RanCommand(r)
    /\ r.outcome = "failed"
    /\ \A i \in DOMAIN r.passes : r.passes[i] \in {"drop", "reset"}

\* C15 (nested card references are copied on demand): a query whose
\* source-table is card__<id>, with card <id> not (yet) in the card id map for
\* the target, does not make the rewrite fail: no bulk copy or copy_collection
\* stops while copying cards with the KeyError of a card id map without the
\* entry.  (In that pass every other lookup in an id map is of a collection
\* copied just before, so the KeyError can only be the card map's.)
NestedCardNeverMissing ==
    (pc = "idle" /\ FailedCopyingCollections(LastRun)) => LastRun.err # "KeyError"

-----------------------------------------------------------------------------
(* Properties of the teardown and of the sequences                          *)

\* the table each of the seven deletes of the teardown is on
StepTable ==
    <<"perm", "series", "dashcard", "dashcard", "dashboard", "card", "collection">>

\* the ids a table had before the teardown and has no more in `now`
Deleted(before, now, tbl) == {x.id : x \in before[tbl]} \ {x.id : x \in now[tbl]}

\* no row that is still in `now` refers to a row the teardown has deleted
NoDanglingRows(before, now) ==
    /\ \A l \in now.series :
          /\ l.dashboardcard_id \notin Deleted(before, now, "dashcard")
          /\ l.card_id \notin Deleted(before, now, "card")
    /\ \A l \in now.dashcard :
          /\ l.dashboard_id \notin Deleted(before, now, "dashboard")
          /\ l.card_id \notin Deleted(before, now, "card")
    /\ \A c \in now.card : c.collection_id \notin Deleted(before, now, "collection")
    /\ \A d \in now.dashboard : d.collection_id \notin Deleted(before, now, "collection")

\* C16 (teardown respects referential integrity): the teardown of a bulk copy
\* deletes from permissions, card-series, dashboard-cards, dashboards, cards
\* and collections in that order, and after every one of its deletes no
\* surviving card-series refers to a deleted dashboard-card or card, no
\* surviving dashboard-card to a deleted dashboard or card, no surviving card
\* or dashboard to a deleted collection.
TeardownKeepsIntegrity ==
    (pc = "idle" /\ LastRun.valid /\ LastRun.args.op = "copy") =>
        \A i \in DOMAIN LastRun.dropSteps :
            /\ \A tbl \in CopiedTables \ {StepTable[i]} :
                  LastRun.dropSteps[i][tbl] =
                      (IF i = 1 THEN LastRun.pre.tables
                       ELSE LastRun.dropSteps[i - 1])[tbl]
            /\ NoDanglingRows(LastRun.pre.tables, LastRun.dropSteps[i])

\* a bulk copy that got as far as resetting the sequences
DidReset(r) ==
    /\ r.valid
    /\ r.args.op = "copy"
    /\ \E i \in DOMAIN r.passes : r.passes[i] = "reset"

\* C17 (the sequence reset prevents id collisions): in a bulk copy, for each of
\* the six tables the reset leaves the counter at or above the highest id the
\* sequence ever handed out (r.issued, as of the start of the run), and every
\* id the run assigns afterwards is above that id and is the id of no row that
\* was in the table.
ResetAboveIssued ==
    (pc = "idle" /\ DidReset(LastRun)) =>
        \A tbl \in CopiedTables :
            /\ LastRun.afterReset[tbl] >= LastRun.issued[tbl]
            /\ \A id \in InsertedIds(LastRun, tbl) :
                  /\ id > LastRun.issued[tbl]
                  /\ id \notin {x.id : x \in LastRun.afterDrop[tbl]}

-----------------------------------------------------------------------------
(* Properties of remap_collection                                           *)

\* remap_collection returned a collection
Remapped == fn.op = "rename" /\ fn.done /\ fn.out.ok

\* the copy carries the target's label as name and the description with the
\* slugified old name replaced by the slugified label
IsRenamed ==
    /\ fn.out.val.name = RenameDatabases[fn.target]
    /\ fn.out.val.description =
          [fn.collection.description EXCEPT
              !.text = Replace(@, slugify(fn.collection.name),
                               slugify(RenameDatabases[fn.target]))]

KeepsName ==
    /\ fn.out.val.name = fn.collection.name
    /\ fn.out.val.description = fn.collection.description

\* C18 (root-collection rename rule): the copy that remap_collection returns
\* is renamed to the target's label, its description rewritten, if and only if
\* its rewritten location has exactly one ancestor segment; with no ancestor
\* segment (source location "/") or with two or more it keeps the source's
\* name and description.
RenamedIffOneAncestor ==
    Remapped =>
        IF Len(Parts(fn.out.val.location)) = 1 THEN IsRenamed ELSE KeepsName

-----------------------------------------------------------------------------
(* Properties of the dashboard-card pass                                    *)

\* the dashboard-cards of the dashboards the run under way has copied
PlacedOnCopied == {l \in store.dashcard : l.dashboard_id \in DOMAIN ctx.maps.dashboards}

\* run r stopped with an exception in the pass that copies the dashboard-cards
FailedCopyingDashboardCards(r) ==
    /\ RanCommand(r)
    /\ r.outcome = "failed"
    /\ r.passes # <<>>
    /\ r.passes[Len(r.passes)] = "permissions"

\* C19 (placeholder placements): once the dashboard-card pass is done, every
\* dashboard-card of a copied dashboard has a copy in every target context,
\* with dashboard_id the target's copy of its dashboard and card_id null when
\* the source's is null, the target's copy of the card otherwise; and the pass
\* never fails over placeholders: when it fails, some dashboard-card with a
\* card has no entry for that card in the card id map.
PlaceholdersStayNull ==
    /\ pc = "cardseries" =>
          \A l \in PlacedOnCopied :
              \A t \in Range(ctx.targets) :
                  /\ Has(ctx.maps.dashboardcards, l.id, t)
                  /\ RowsById(store.dashcard, ctx.maps.dashboardcards[l.id][t]) # {}
                  /\ RowOf(store.dashcard, ctx.maps.dashboardcards[l.id][t]).dashboard_id
                       = ctx.maps.dashboards[l.dashboard_id][t]
                  /\ IF l.card_id = 0
                     THEN RowOf(store.dashcard,
                                ctx.maps.dashboardcards[l.id][t]).card_id = 0
                     ELSE /\ Has(ctx.maps.cards, l.card_id, t)
                          /\ RowOf(store.dashcard,
                                   ctx.maps.dashboardcards[l.id][t]).card_id
                               = ctx.maps.cards[l.card_id][t]
    /\ (pc = "idle" /\ FailedCopyingDashboardCards(LastRun)) =>
          \E l \in Before(LastRun).dashcard :
              /\ l.dashboard_id \in DOMAIN LastRun.maps.dashboards
              /\ l.card_id # 0
              /\ \E t \in DOMAIN LastRun.databases : ~Has(LastRun.maps.cards, l.card_id, t)

\* the dashboard-card pass of a copy into two targets is done and the
\* placeholder (dashboard-card 2, card_id null) has a copy in both
PlaceholderCopiedTwice ==
    /\ pc = "cardseries"
    /\ Range(ctx.targets) = {2, 3}
    /\ \E l \in PlacedOnCopied : l.id = 2 /\ l.card_id = 0
    /\ \A t \in {2, 3} :
          /\ Has(ctx.maps.dashboardcards, 2, t)
          /\ RowOf(store.dashcard, ctx.maps.dashboardcards[2][t]).card_id = 0

-----------------------------------------------------------------------------
(* Properties of the lookups in the id maps                                 *)

\* the source rows of run r as the copy passes found them
SourceOf(r, tbl) == SourceRows(Before(r), r.base, tbl)

\* a permission the permission pass of run r selects names, where its
\* collection id is parsed, a collection that is not copied
PermissionOffTheMap(r) ==
    \E p \in permissions_for(Before(r).perm, r.base) :
        PermissionMatches(p.object) /\ p.object[4] \notin r.base

\* a dashboard-card or a card-series of the source set of run r is on a card
\* that is not copied
CardOffTheMap(r) ==
    \/ \E l \in SourceOf(r, "dashcard") :
          l.card_id # 0 /\ l.card_id \notin {c.id : c \in SourceOf(r, "card")}
    \/ \E l \in SourceOf(r, "series") :
          l.card_id \notin {c.id : c \in SourceOf(r, "card")}

\* C20 (referential lookup misses are fatal): a bulk copy or copy_collection
\* that has to translate the id of a card or collection that is not in the id
\* map (a dashboard-card or card-series on a card outside the copied set, a
\* permission whose parsed collection id is not copied) ends with an error
\* and with the tables as they were; it does not go on with zero rows for it.
LookupMissIsFatal ==
    (pc = "idle" /\ RanCommand(LastRun)
        /\ (PermissionOffTheMap(LastRun) \/ CardOffTheMap(LastRun)))
        => /\ LastRun.outcome = "failed"
           /\ Tables(store) = LastRun.pre.tables

-----------------------------------------------------------------------------
(* Properties of the collection tree                                        *)

\* every command run so far was a bulk copy that committed (hist keeps the
\* last two)
OnlyCommittedCopies ==
    /\ pc = "idle"
    /\ hist.runs \in {1, 2}
    /\ LastRun.valid /\ LastRun.args.op = "copy" /\ LastRun.outcome = "committed"
    /\ hist.runs = 2 =>
          (PrevRun.valid /\ PrevRun.args.op = "copy" /\ PrevRun.outcome = "committed")

\* every ancestor segment of every collection's location is the id of a
\* collection in the table
WellFormedTree(collections) ==
    \A c \in collections :
        \A i \in DOMAIN Parts(c.location) :
            RowsById(collections, Parts(c.location)[i]) # {}

\* C21 (the collection tree stays well-formed): after any sequence of
\* committed bulk copies, with or without allow-lists, every collection in the
\* store has a location whose every ancestor segment is the id of an existing
\* collection: no teardown deleted a copied target root and left its copied
\* descendants behind.
CollectionTreeWellFormed ==
    OnlyCommittedCopies => WellFormedTree(store.collection)

-----------------------------------------------------------------------------
(* Properties of copy_question                                              *)

\* the source card an inserted card is a copy of: a copy keeps the name, and
\* the cards of the stores have distinct names
CopiesOfCard(r, name) == {x \in InsertedRows(r, "card") : x.name = name}

\* C22 (no duplicate copies in copy-one-card): one copy_question inserts each
\* source card, the requested one and each one reached through card__<id>,
\* at most once into the target context.
QuestionCopiesEachCardOnce ==
    (pc = "idle" /\ LastRun.valid /\ LastRun.args.op = "copy_question") =>
        \A c \in LastRun.pre.tables.card :
            Cardinality(CopiesOfCard(LastRun, c.name)) <= 1

\* the chain of calls of a copy_question has ended
QuestionDone == fn.op = "nest" /\ fn.done

\* copy_card on the store of the graph, computed call within call
WholeCopy ==
    copy_card([St EXCEPT !.store = NestStore(fn.graph),
                         !.seq = FixtureSeq(NestStore(fn.graph)),
                         !.issued = FixtureSeq(NestStore(fn.graph)),
                         !.cards = NoCards],
              RowOf(NestStore(fn.graph).card, fn.question), <<2>>, NoCards)

\* the chain of calls taken step by step ends as copy_card does: with the same
\* outcome and the same number of rows inserted
StepsAgreeWithCopyCard ==
    QuestionDone =>
        /\ fn.ok = WholeCopy.ok
        /\ fn.err = WholeCopy.err
        /\ fn.inserted = Len(WholeCopy.st.log)

\* each call copies at most two cards below it, down to MaxNest levels
InsertBound == 2 ^ (MaxNest + 1) - 1

\* C23 (termination of copy-one-card): whatever way the cards read from each
\* other through card__<id>, cycles and a card reading from itself included,
\* copy_question eventually ends, with a new card or with an error, and has
\* then inserted a bounded number of rows.
QuestionTerminates == <>(QuestionDone /\ fn.inserted <= InsertBound)

\* cards 1 and 2 read from each other, and the copy of card 1 ended with the
\* interpreter's RecursionError
CycleEndedInError ==
    /\ QuestionDone
    /\ fn.graph[1] = <<2>> /\ fn.graph[2] = <<1>>
    /\ fn.question = 1
    /\ ~fn.ok /\ fn.err = "RecursionError"

\* the table a source table stands for in the target database, read from the
\* Table rows alone
UncachedTable(id, target) ==
    IF RowsById(store.table, id) = {} THEN Null
    ELSE IF Cardinality({r \in store.table :
                           /\ r.schema = RowOf(store.table, id).schema
                           /\ r.name = RowOf(store.table, id).name
                           /\ r.db_id = target}) # 1 THEN Null
    ELSE JInt(TheOne({r \in store.table :
                           /\ r.schema = RowOf(store.table, id).schema
                           /\ r.name = RowOf(store.table, id).name
                           /\ r.db_id = target}))

\* the field a source field stands for, read from the Field and Table rows alone
UncachedField(id, target) ==
    IF RowsById(store.field, id) = {} THEN Null
    ELSE IF UncachedTable(RowOf(store.field, id).table_id, target) = Null THEN Null
    ELSE IF Cardinality({r \in store.field :
                           /\ r.name = RowOf(store.field, id).name
                           /\ r.table_id =
                                UncachedTable(RowOf(store.field, id).table_id, target).n})
            # 1 THEN Null
    ELSE JInt(TheOne({r \in store.field :
                           /\ r.name = RowOf(store.field, id).name
                           /\ r.table_id =
                                UncachedTable(RowOf(store.field, id).table_id, target).n}))

Outcome(r) == [ok |-> r.ok, err |-> r.err, val |-> r.val]

\* the last resolution gave what the same resolution gives on empty caches
SameAsOnEmptyCaches ==
    fn.last.out = Outcome(Resolve(EmptyCache, fn.last.kind, fn.last.x, fn.last.target))

\* the last table or field resolved is the one the rows themselves name
SameAsUncached ==
    /\ fn.last.kind = "table" =>
          fn.last.out.val = UncachedTable(fn.last.x.n, fn.last.target)
    /\ fn.last.kind = "field" =>
          fn.last.out.val = UncachedField(fn.last.x.n, fn.last.target)

\* C24 (cache transparency): with the Table and Field rows unchanged, whatever
\* tables, fields and queries the run resolved before and in whatever order,
\* resolving a table id, a field id or a query for a target gives the result
\* it gives on empty caches, and for a table or field the result read from
\* the rows without any cache.
CacheTransparent ==
    (fn.op = "cache" /\ fn.last.kind # "none") =>
        (SameAsOnEmptyCaches /\ SameAsUncached)

\* field 141 ("total" of users) was resolved for database 2 from caches that
\* already held "total" of orders for database 2, and came out as itself
ResolvedFromWarmCaches ==
    /\ fn.op = "cache"
    /\ fn.lookups = 2
    /\ fn.last.kind = "field" /\ fn.last.x = JInt(141) /\ fn.last.target = 2
    /\ fn.last.out.ok /\ fn.last.out.val = JInt(141)
    /\ <<12, "total">> \in DOMAIN fn.cache.fields_by_name
    /\ <<14, "total">> \in DOMAIN fn.cache.fields_by_name
====
